---------------------------- MODULE Spec2Model ----------------------------
(***************************************************************************)
(* SMS mental-health support bot: the Risk Assessor (safety.js), the        *)
(* Session/Context Store (sessionManager.js, memory.js) and the            *)
(* Conversation Orchestrator (messageHandler.js), as one state machine.    *)
(*                                                                         *)
(* Text is modelled as a sequence of one-character strings so that         *)
(* toLowerCase, trim, startsWith and includes are computed, not assumed.   *)
(***************************************************************************)
EXTENDS Integers, Sequences, FiniteSets, TLC

(***************************************************************************)
(* Strings                                                                 *)
(***************************************************************************)

\* String.prototype.toLowerCase on one character (ASCII letters; every other
\* character of the inbound texts below maps to itself).
ToLowerChar(c) ==
    CASE c = "A" -> "a"
      [] c = "B" -> "b"
      [] c = "C" -> "c"
      [] c = "D" -> "d"
      [] c = "E" -> "e"
      [] c = "F" -> "f"
      [] c = "G" -> "g"
      [] c = "H" -> "h"
      [] c = "I" -> "i"
      [] c = "J" -> "j"
      [] c = "K" -> "k"
      [] c = "L" -> "l"
      [] c = "M" -> "m"
      [] c = "N" -> "n"
      [] c = "O" -> "o"
      [] c = "P" -> "p"
      [] c = "Q" -> "q"
      [] c = "R" -> "r"
      [] c = "S" -> "s"
      [] c = "T" -> "t"
      [] c = "U" -> "u"
      [] c = "V" -> "v"
      [] c = "W" -> "w"
      [] c = "X" -> "x"
      [] c = "Y" -> "y"
      [] c = "Z" -> "z"
      [] OTHER -> c

\* Variant of toLowerCase: the text as it is
toLowerCaseAsIs(s) == s

\* message.toLowerCase()
toLowerCase(s) == [i \in 1..Len(s) |-> ToLowerChar(s[i])]

\* String.prototype.toUpperCase on one character: the ASCII letters, the
\* dotless i (U+0131, whose upper case is I) and the sharp s (U+00DF, whose
\* upper case is the two letters SS); every other character of the texts
\* below maps to itself
ToUpperChars(c) ==
    CASE c = "a" -> << "A" >>
      [] c = "b" -> << "B" >>
      [] c = "c" -> << "C" >>
      [] c = "d" -> << "D" >>
      [] c = "e" -> << "E" >>
      [] c = "f" -> << "F" >>
      [] c = "g" -> << "G" >>
      [] c = "h" -> << "H" >>
      [] c = "i" -> << "I" >>
      [] c = "j" -> << "J" >>
      [] c = "k" -> << "K" >>
      [] c = "l" -> << "L" >>
      [] c = "m" -> << "M" >>
      [] c = "n" -> << "N" >>
      [] c = "o" -> << "O" >>
      [] c = "p" -> << "P" >>
      [] c = "q" -> << "Q" >>
      [] c = "r" -> << "R" >>
      [] c = "s" -> << "S" >>
      [] c = "t" -> << "T" >>
      [] c = "u" -> << "U" >>
      [] c = "v" -> << "V" >>
      [] c = "w" -> << "W" >>
      [] c = "x" -> << "X" >>
      [] c = "y" -> << "Y" >>
      [] c = "z" -> << "Z" >>
      [] c = "U+0131" -> << "I" >>
      [] c = "U+00DF" -> << "S", "S" >>
      [] OTHER -> << c >>

\* message.toUpperCase()
RECURSIVE toUpperCase(_)
toUpperCase(s) ==
    IF s = << >> THEN << >>
    ELSE ToUpperChars(Head(s)) \o toUpperCase(Tail(s))

\* lowerMessage.includes(keyword): keyword occurs as a contiguous substring
includes(s, keyword) ==
    \E i \in 1..(Len(s) - Len(keyword) + 1) :
        SubSeq(s, i, i + Len(keyword) - 1) = keyword

\* lowerMessage.startsWith(prefix)
startsWith(s, prefix) ==
    /\ Len(s) >= Len(prefix)
    /\ SubSeq(s, 1, Len(prefix)) = prefix

\* White space removed by String.prototype.trim (the characters used here)
WhiteSpace == {" ", "\t", "\n"}

RECURSIVE trimStart(_)
trimStart(s) ==
    IF s # <<>> /\ Head(s) \in WhiteSpace THEN trimStart(Tail(s)) ELSE s

RECURSIVE trimEnd(_)
trimEnd(s) ==
    IF s # <<>> /\ s[Len(s)] \in WhiteSpace
    THEN trimEnd(SubSeq(s, 1, Len(s) - 1))
    ELSE s

\* message.trim()
trim(s) == trimEnd(trimStart(s))

(***************************************************************************)
(* safety.js: keyword dictionaries                                         *)
(***************************************************************************)

CRISIS_KEYWORDS ==
    [ suicide |-> <<
          <<"k","i","l","l"," ","m","y","s","e","l","f">>,   \* kill myself
          <<"e","n","d"," ","m","y"," ","l","i","f","e">>,   \* end my life
          <<"w","a","n","t"," ","t","o"," ","d","i","e">>,   \* want to die
          <<"s","u","i","c","i","d","e">>,   \* suicide
          <<"s","u","i","c","i","d","a","l">>,   \* suicidal
          <<"b","e","t","t","e","r"," ","o","f","f"," ","d","e","a","d">>,   \* better off dead
          <<"n","o"," ","r","e","a","s","o","n"," ","t","o"," ","l","i","v","e">>,   \* no reason to live
          <<"e","n","d","i","n","g"," ","i","t"," ","a","l","l">>,   \* ending it all
          <<"t","a","k","e"," ","m","y"," ","l","i","f","e">>,   \* take my life
          <<"n","o","t"," ","w","o","r","t","h"," ","l","i","v","i","n","g">>,   \* not worth living
          <<"e","n","d"," ","i","t"," ","a","l","l">>,   \* end it all
          <<"r","a","t","h","e","r"," ","b","e"," ","d","e","a","d">>,   \* rather be dead
          <<"w","i","s","h"," ","i"," ","w","a","s"," ","d","e","a","d">>,   \* wish i was dead
          <<"g","o","i","n","g"," ","t","o"," ","k","i","l","l">>,   \* going to kill
          <<"p","l","a","n","n","i","n","g"," ","t","o"," ","d","i","e">>,   \* planning to die
          <<"g","o","o","d","b","y","e"," ","f","o","r","e","v","e","r">>,   \* goodbye forever
          <<"f","i","n","a","l"," ","g","o","o","d","b","y","e">>,   \* final goodbye
          <<"c","a","n","t"," ","g","o"," ","o","n">>,   \* cant go on
          <<"c","a","n","'","t"," ","t","a","k","e"," ","i","t"," ","a","n","y","m","o","r","e">>,   \* can't take it anymore
          <<"o","v","e","r","d","o","s","e">>,   \* overdose
          <<"h","a","n","g"," ","m","y","s","e","l","f">>,   \* hang myself
          <<"j","u","m","p"," ","o","f","f">>,   \* jump off
          <<"s","l","i","t"," ","m","y"," ","w","r","i","s","t">>,   \* slit my wrist
          <<"e","n","d"," ","t","h","i","s"," ","p","a","i","n">>,   \* end this pain
          <<"e","v","e","r","y","o","n","e"," ","w","o","u","l","d"," ","b","e"," ","b","e","t","t","e","r">>   \* everyone would be better
        >>,
      selfHarm |-> <<
          <<"c","u","t"," ","m","y","s","e","l","f">>,   \* cut myself
          <<"c","u","t","t","i","n","g">>,   \* cutting
          <<"s","e","l","f"," ","h","a","r","m">>,   \* self harm
          <<"s","e","l","f","-","h","a","r","m">>,   \* self-harm
          <<"h","u","r","t"," ","m","y","s","e","l","f">>,   \* hurt myself
          <<"b","u","r","n","i","n","g"," ","m","y","s","e","l","f">>,   \* burning myself
          <<"p","u","n","i","s","h"," ","m","y","s","e","l","f">>,   \* punish myself
          <<"d","e","s","e","r","v","e"," ","p","a","i","n">>,   \* deserve pain
          <<"h","a","r","m"," ","m","y","s","e","l","f">>,   \* harm myself
          <<"m","u","t","i","l","a","t","e">>,   \* mutilate
          <<"s","t","a","r","v","e"," ","m","y","s","e","l","f">>,   \* starve myself
          <<"s","t","o","p"," ","e","a","t","i","n","g">>,   \* stop eating
          <<"p","u","r","g","e">>,   \* purge
          <<"m","a","k","e"," ","m","y","s","e","l","f"," ","b","l","e","e","d">>   \* make myself bleed
        >>,
      abuse |-> <<
          <<"b","e","i","n","g"," ","a","b","u","s","e","d">>,   \* being abused
          <<"m","o","l","e","s","t","e","d">>,   \* molested
          <<"s","e","x","u","a","l"," ","a","b","u","s","e">>,   \* sexual abuse
          <<"p","h","y","s","i","c","a","l","l","y"," ","a","b","u","s","e","d">>,   \* physically abused
          <<"h","i","t"," ","m","e">>,   \* hit me
          <<"b","e","a","t","s"," ","m","e">>,   \* beats me
          <<"t","o","u","c","h","e","s"," ","m","e"," ","i","n","a","p","p","r","o","p","r","i","a","t","e","l","y">>,   \* touches me inappropriately
          <<"r","a","p","e">>,   \* rape
          <<"r","a","p","e","d">>,   \* raped
          <<"a","s","s","a","u","l","t","e","d">>,   \* assaulted
          <<"h","u","r","t","s"," ","m","e">>,   \* hurts me
          <<"s","c","a","r","e","d"," ","o","f">>,   \* scared of
          <<"t","h","r","e","a","t","e","n","s"," ","m","e">>,   \* threatens me
          <<"h","i","t","t","i","n","g"," ","m","e">>   \* hitting me
        >>,
      substance |-> <<
          <<"o","v","e","r","d","o","s","i","n","g">>,   \* overdosing
          <<"t","o","o"," ","m","a","n","y"," ","p","i","l","l","s">>,   \* too many pills
          <<"d","r","i","n","k","i","n","g"," ","t","o"," ","f","o","r","g","e","t">>,   \* drinking to forget
          <<"g","e","t","t","i","n","g"," ","h","i","g","h">>,   \* getting high
          <<"n","e","e","d"," ","d","r","u","g","s">>,   \* need drugs
          <<"c","a","n","t"," ","s","t","o","p"," ","u","s","i","n","g">>,   \* cant stop using
          <<"a","d","d","i","c","t","e","d">>,   \* addicted
          <<"s","u","b","s","t","a","n","c","e"," ","a","b","u","s","e">>,   \* substance abuse
          <<"a","l","c","o","h","o","l"," ","p","r","o","b","l","e","m">>,   \* alcohol problem
          <<"d","r","u","g"," ","p","r","o","b","l","e","m">>,   \* drug problem
          <<"t","a","k","i","n","g"," ","p","i","l","l","s">>,   \* taking pills
          <<"u","s","i","n","g"," ","d","r","u","g","s">>   \* using drugs
        >>,
      immediateRisk |-> <<
          <<"r","i","g","h","t"," ","n","o","w">>,   \* right now
          <<"t","o","n","i","g","h","t">>,   \* tonight
          <<"t","o","d","a","y">>,   \* today
          <<"h","a","v","e"," ","t","h","e">>,   \* have the
          <<"h","o","l","d","i","n","g">>,   \* holding
          <<"i","n"," ","m","y"," ","h","a","n","d">>,   \* in my hand
          <<"r","e","a","d","y"," ","t","o">>,   \* ready to
          <<"a","b","o","u","t"," ","t","o">>,   \* about to
          <<"g","o","i","n","g"," ","t","o"," ","d","o"," ","i","t">>,   \* going to do it
          <<"t","h","i","s"," ","i","s"," ","g","o","o","d","b","y","e">>,   \* this is goodbye
          <<"s","a","y","i","n","g"," ","g","o","o","d","b","y","e">>,   \* saying goodbye
          <<"l","a","s","t"," ","m","e","s","s","a","g","e">>,   \* last message
          <<"f","i","n","a","l"," ","t","e","x","t">>,   \* final text
          <<"w","o","n","t"," ","r","e","s","p","o","n","d">>   \* wont respond
        >> ]

(***************************************************************************)
(* safety.js: risk levels, resources, assessRisk, generateCrisisResponse   *)
(*                                                                         *)
(* An outbound text is a sequence of fragments; every hotline number is a  *)
(* fragment of its own, so "the text contains 988" is a membership test.   *)
(***************************************************************************)

RISK_LEVELS ==
    [ NONE |-> "none", LOW |-> "low", MEDIUM |-> "medium",
      HIGH |-> "high", CRITICAL |-> "critical" ]

RiskLevel == {"none", "low", "medium", "high", "critical"}

\* JavaScript null where a text is expected (no text holds this fragment)
null == << "<null>" >>

\* text.includes(number), for the hotline numbers
containsNumber(text, number) == \E i \in 1..Len(text) : text[i] = number

CRISIS_RESOURCES ==
    [ suicide |->
          [ name |-> << "988", " Suicide & Crisis Lifeline" >>,
            number |-> << "988" >>,
            text |-> << "Text HELLO to ", "741741" >> ],
      crisisText |->
          [ name |-> << "Crisis Text Line" >>,
            number |-> << "741741" >>,
            text |-> << "Text HELLO" >> ],
      trevorProject |->
          [ name |-> << "Trevor Project (LGBTQ+ Youth)" >>,
            number |-> << "1-866-488-7386" >>,
            text |-> << "Text START to ", "678-678" >> ],
      abuse |->
          [ name |-> << "Childhelp National Abuse Hotline" >>,
            number |-> << "1-800-422-4453" >>,
            text |-> << >> ],
      samhsa |->
          [ name |-> << "SAMHSA Helpline (Substance Abuse)" >>,
            number |-> << "1-800-662-4357" >>,
            text |-> << >> ],
      eating |->
          [ name |-> << "NEDA Hotline (Eating Disorders)" >>,
            number |-> << "1-800-931-2237" >>,
            text |-> << "Text NEDA to ", "741741" >> ] ]

\* CRISIS_KEYWORDS[category].filter(keyword => lowerMessage.includes(keyword))
keywordMatches(lowerMessage, category) ==
    SelectSeq(CRISIS_KEYWORDS[category],
              LAMBDA keyword : includes(lowerMessage, keyword))

\* Variant of scoreLevel: a score of 10 still counts as low
scoreLevelInclusive(riskScore) ==
    IF riskScore = 0 THEN RISK_LEVELS.NONE
    ELSE IF riskScore <= 10 THEN RISK_LEVELS.LOW
    ELSE IF riskScore < 20 THEN RISK_LEVELS.MEDIUM
    ELSE IF riskScore < 40 THEN RISK_LEVELS.HIGH
    ELSE RISK_LEVELS.CRITICAL

\* "Determine risk level based on score"
scoreLevel(riskScore) ==
    IF riskScore = 0 THEN RISK_LEVELS.NONE
    ELSE IF riskScore < 10 THEN RISK_LEVELS.LOW
    ELSE IF riskScore < 20 THEN RISK_LEVELS.MEDIUM
    ELSE IF riskScore < 40 THEN RISK_LEVELS.HIGH
    ELSE RISK_LEVELS.CRITICAL

\* Variant of riskScoreOf: an immediate-risk keyword adds 5, not 15
riskScoreOfLightImmediate(lowerMessage) ==
    LET suicideMatches   == keywordMatches(lowerMessage, "suicide")
        selfHarmMatches  == keywordMatches(lowerMessage, "selfHarm")
        abuseMatches     == keywordMatches(lowerMessage, "abuse")
        substanceMatches == keywordMatches(lowerMessage, "substance")
        immediateMatches == keywordMatches(lowerMessage, "immediateRisk")
        scored == Len(suicideMatches) * 10 + Len(selfHarmMatches) * 7
                  + Len(abuseMatches) * 8 + Len(substanceMatches) * 5
        anyCategory == Len(suicideMatches) > 0 \/ Len(selfHarmMatches) > 0
                       \/ Len(abuseMatches) > 0 \/ Len(substanceMatches) > 0
    IN  IF Len(immediateMatches) > 0 /\ anyCategory
        THEN scored + Len(immediateMatches) * 5
        ELSE scored

\* Variant of riskScoreOf: immediate-risk keywords count even when no
\* category matched
riskScoreOfAlwaysImmediate(lowerMessage) ==
    LET suicideMatches   == keywordMatches(lowerMessage, "suicide")
        selfHarmMatches  == keywordMatches(lowerMessage, "selfHarm")
        abuseMatches     == keywordMatches(lowerMessage, "abuse")
        substanceMatches == keywordMatches(lowerMessage, "substance")
        immediateMatches == keywordMatches(lowerMessage, "immediateRisk")
        scored == Len(suicideMatches) * 10 + Len(selfHarmMatches) * 7
                  + Len(abuseMatches) * 8 + Len(substanceMatches) * 5
    IN  scored + Len(immediateMatches) * 15

\* The risk score of assessRisk before it is mapped to a level
riskScoreOf(lowerMessage) ==
    LET suicideMatches   == keywordMatches(lowerMessage, "suicide")
        selfHarmMatches  == keywordMatches(lowerMessage, "selfHarm")
        abuseMatches     == keywordMatches(lowerMessage, "abuse")
        substanceMatches == keywordMatches(lowerMessage, "substance")
        immediateMatches == keywordMatches(lowerMessage, "immediateRisk")
        scored == Len(suicideMatches) * 10 + Len(selfHarmMatches) * 7
                  + Len(abuseMatches) * 8 + Len(substanceMatches) * 5
        anyCategory == Len(suicideMatches) > 0 \/ Len(selfHarmMatches) > 0
                       \/ Len(abuseMatches) > 0 \/ Len(substanceMatches) > 0
    IN  IF Len(immediateMatches) > 0 /\ anyCategory
        THEN scored + Len(immediateMatches) * 15
        ELSE scored

assessRisk(message) ==
    LET lowerMessage     == toLowerCase(message)
        suicideMatches   == keywordMatches(lowerMessage, "suicide")
        selfHarmMatches  == keywordMatches(lowerMessage, "selfHarm")
        abuseMatches     == keywordMatches(lowerMessage, "abuse")
        substanceMatches == keywordMatches(lowerMessage, "substance")
        level            == scoreLevel(riskScoreOf(lowerMessage))
    IN  [ level |-> level,
          categories |->
              (IF Len(suicideMatches) > 0 THEN << "suicide" >> ELSE << >>)
              \o (IF Len(selfHarmMatches) > 0 THEN << "selfHarm" >> ELSE << >>)
              \o (IF Len(abuseMatches) > 0 THEN << "abuse" >> ELSE << >>)
              \o (IF Len(substanceMatches) > 0 THEN << "substance" >> ELSE << >>),
          keywords |->
              suicideMatches \o selfHarmMatches \o abuseMatches
              \o substanceMatches,
          requiresImmediateIntervention |-> level = RISK_LEVELS.CRITICAL,
          resources |->
              (IF Len(suicideMatches) > 0
               THEN << "suicide", "crisisText" >> ELSE << >>)
              \o (IF Len(selfHarmMatches) > 0 THEN << "crisisText" >> ELSE << >>)
              \o (IF Len(abuseMatches) > 0 THEN << "abuse" >> ELSE << >>)
              \o (IF Len(substanceMatches) > 0 THEN << "samhsa" >> ELSE << >>) ]

\* categories.includes(category)
hasCategory(categories, category) ==
    \E i \in 1..Len(categories) : categories[i] = category

\* One line of resources.forEach(...) in generateCrisisResponse
resourceLine(key) ==
    LET resource == CRISIS_RESOURCES[key]
    IN  resource.name \o << ": " >> \o resource.number
        \o (IF resource.text # << >> THEN << " or " >> \o resource.text
            ELSE << >>)

RECURSIVE resourceLines(_)
resourceLines(resources) ==
    IF resources = << >> THEN << >>
    ELSE resourceLine(Head(resources)) \o resourceLines(Tail(resources))

generateCrisisResponse(assessment) ==
    LET level      == assessment.level
        categories == assessment.categories
        resources  == assessment.resources
    IN  IF level = RISK_LEVELS.CRITICAL THEN
            << "I'm really concerned about you right now." >>
            \o (IF hasCategory(categories, "suicide")
                THEN << "Call ", "988", "Text HELLO to ", "741741" >>
                ELSE << >>)
            \o << "If you're in immediate danger, please call ", "911" >>
        ELSE IF level = RISK_LEVELS.HIGH THEN
            << "I hear that you're going through something really difficult." >>
            \o resourceLines(resources)
            \o << "Is there a trusted adult you could talk to?" >>
        ELSE IF level = RISK_LEVELS.MEDIUM THEN
            << "Thank you for sharing this with me." >>
            \o (IF hasCategory(categories, "selfHarm")
                THEN << "Self-harm can be a sign of intense emotions." >>
                ELSE << >>)
            \o resourceLines(resources)
            \o << "Have you been able to talk to a counselor?" >>
        ELSE IF level = RISK_LEVELS.LOW THEN
            << "I'm here to listen and support you.", "988",
               "Text HELLO to ", "741741", "What's on your mind?" >>
        ELSE null

\* Variant of requiresHumanEscalation: only the critical level escalates
requiresHumanEscalationCritical(assessment) ==
    assessment.level = RISK_LEVELS.CRITICAL

requiresHumanEscalation(assessment) ==
    assessment.level = RISK_LEVELS.CRITICAL \/ assessment.level = RISK_LEVELS.HIGH

\* Variant of requiresReview: a low level is not flagged for review
requiresReviewFromMedium(assessment) ==
    assessment.level # RISK_LEVELS.NONE /\ assessment.level # RISK_LEVELS.LOW

requiresReview(assessment) == assessment.level # RISK_LEVELS.NONE

getSafetyPlanPrompt ==
    << "Let's work on a safety plan together.", "988", "Text HELLO to ",
       "741741" >>

(***************************************************************************)
(* commands.js                                                             *)
(***************************************************************************)

\* Variant of isCommand that does not trim the message
isCommandUntrimmed(message) ==
    LET lowerMessage == toLowerCase(message)
    IN  \/ startsWith(lowerMessage, <<"/">>)
        \/ lowerMessage = <<"h","e","l","p">>
        \/ lowerMessage = <<"r","e","s","o","u","r","c","e","s">>
        \/ lowerMessage = <<"c","r","i","s","i","s">>
        \/ lowerMessage = <<"s","t","o","p">>

isCommand(message) ==
    LET lowerMessage == toLowerCase(trim(message))
    IN  \/ startsWith(lowerMessage, <<"/">>)
        \/ lowerMessage = <<"h","e","l","p">>
        \/ lowerMessage = <<"r","e","s","o","u","r","c","e","s">>
        \/ lowerMessage = <<"c","r","i","s","i","s">>
        \/ lowerMessage = <<"s","t","o","p">>

getHelpMessage == << "Available commands: HELP RESOURCES SAFETYPLAN ..." >>

getCrisisResourcesMessage ==
    << "CRISIS RESOURCES. If you're in immediate danger, call ", "911", "988",
       "Text HELLO to ", "741741", "1-866-488-7386", "1-800-422-4453",
       "1-800-662-4357" >>

getTopicsMessage == << "I'm here to help with: ..." >>

getAboutMessage == << "I'm a mental health support chatbot ..." >>

getStopMessage ==
    << "I understand. I'll pause sending you messages.", "988",
       "Text HELLO to ", "741741" >>

getResumeMessage == << "Welcome back! I'm glad you're here." >>

getCheckInResponse == << "Thanks for checking in!" >>

getBreathingExercise == << "Let's do a quick breathing exercise together." >>

getGroundingExercise == << "Let's try the 5-4-3-2-1 grounding technique." >>

getCopingStrategies == << "Healthy ways to cope when things get tough." >>

unknownCommand == << "I don't recognize that command." >>

handleCommand(message) ==
    LET lowerMessage == toLowerCase(trim(message))
        commandText  == IF startsWith(lowerMessage, <<"/">>)
                        THEN Tail(lowerMessage) ELSE lowerMessage
    IN  CASE commandText = <<"h","e","l","p">>
               -> getHelpMessage
          [] commandText = <<"r","e","s","o","u","r","c","e","s">>
             \/ commandText = <<"c","r","i","s","i","s">>
               -> getCrisisResourcesMessage
          [] commandText = <<"s","a","f","e","t","y","p","l","a","n">>
             \/ commandText = <<"s","a","f","e","t","y"," ","p","l","a","n">>
             \/ commandText = <<"s","a","f","e","t","y">>
               -> getSafetyPlanPrompt
          [] commandText = <<"t","o","p","i","c","s">>
               -> getTopicsMessage
          [] commandText = <<"a","b","o","u","t">>
               -> getAboutMessage
          [] commandText = <<"s","t","o","p">>
             \/ commandText = <<"u","n","s","u","b","s","c","r","i","b","e">>
               -> getStopMessage
          [] commandText = <<"s","t","a","r","t">>
             \/ commandText = <<"r","e","s","u","m","e">>
               -> getResumeMessage
          [] commandText = <<"c","h","e","c","k","i","n">>
             \/ commandText = <<"c","h","e","c","k"," ","i","n">>
             \/ commandText = <<"c","h","e","c","k","-","i","n">>
               -> getCheckInResponse
          [] commandText = <<"b","r","e","a","t","h","e">>
             \/ commandText = <<"b","r","e","a","t","h","i","n","g">>
               -> getBreathingExercise
          [] commandText = <<"g","r","o","u","n","d","i","n","g">>
             \/ commandText = <<"g","r","o","u","n","d">>
               -> getGroundingExercise
          [] commandText = <<"c","o","p","i","n","g">>
               -> getCopingStrategies
          [] OTHER -> unknownCommand

(***************************************************************************)
(* aiEngine.js: fallback text, sentiment and topic                         *)
(***************************************************************************)

\* The reply of the external text-generation call; its wording is opaque
generatedText == << "<generated reply>" >>

\* getFallbackResponse(context); inCrisis is context.flags?.inCrisis
getFallbackResponse(inCrisis) ==
    IF inCrisis
    THEN << "I'm having trouble responding right now.", "Call ", "988",
            "Text HELLO to ", "741741" >>
    ELSE << "I'm having a moment of technical difficulty.", "call ", "988",
            "text HELLO to ", "741741" >>

positiveWords ==
    << <<"g","o","o","d">>,   \* good
       <<"g","r","e","a","t">>,   \* great
       <<"h","a","p","p","y">>,   \* happy
       <<"b","e","t","t","e","r">>,   \* better
       <<"o","k","a","y">>,   \* okay
       <<"f","i","n","e">>,   \* fine
       <<"t","h","a","n","k","s">>,   \* thanks
       <<"g","r","a","t","e","f","u","l">> >>   \* grateful

negativeWords ==
    << <<"b","a","d">>,   \* bad
       <<"s","a","d">>,   \* sad
       <<"t","e","r","r","i","b","l","e">>,   \* terrible
       <<"a","w","f","u","l">>,   \* awful
       <<"h","o","r","r","i","b","l","e">>,   \* horrible
       <<"d","e","p","r","e","s","s","e","d">>,   \* depressed
       <<"a","n","x","i","o","u","s">>,   \* anxious
       <<"w","o","r","r","i","e","d">> >>   \* worried

\* words.forEach(word => { if (lowerMessage.includes(word)) count++ })
countIncluded(lowerMessage, words) ==
    Cardinality({ i \in 1..Len(words) : includes(lowerMessage, words[i]) })

analyzeSentiment(message) ==
    LET lowerMessage  == toLowerCase(message)
        positiveCount == countIncluded(lowerMessage, positiveWords)
        negativeCount == countIncluded(lowerMessage, negativeWords)
    IN  IF negativeCount > positiveCount THEN "negative"
        ELSE IF positiveCount > negativeCount THEN "positive"
        ELSE "neutral"

\* The topics of extractTopic, in the order Object.entries visits them
topics ==
    << [ topic |-> "school", keywords |-> <<
            <<"s","c","h","o","o","l">>,   \* school
            <<"c","l","a","s","s">>,   \* class
            <<"h","o","m","e","w","o","r","k">>,   \* homework
            <<"t","e","a","c","h","e","r">>,   \* teacher
            <<"g","r","a","d","e">>,   \* grade
            <<"t","e","s","t">>,   \* test
            <<"e","x","a","m">>,   \* exam
            <<"c","o","l","l","e","g","e">>   \* college
          >> ],
       [ topic |-> "family", keywords |-> <<
            <<"m","o","m">>,   \* mom
            <<"d","a","d">>,   \* dad
            <<"p","a","r","e","n","t">>,   \* parent
            <<"f","a","m","i","l","y">>,   \* family
            <<"b","r","o","t","h","e","r">>,   \* brother
            <<"s","i","s","t","e","r">>,   \* sister
            <<"s","i","b","l","i","n","g">>,   \* sibling
            <<"h","o","m","e">>   \* home
          >> ],
       [ topic |-> "friends", keywords |-> <<
            <<"f","r","i","e","n","d">>,   \* friend
            <<"f","r","i","e","n","d","s","h","i","p">>,   \* friendship
            <<"p","e","e","r">>,   \* peer
            <<"c","l","a","s","s","m","a","t","e">>,   \* classmate
            <<"p","e","o","p","l","e">>   \* people
          >> ],
       [ topic |-> "relationship", keywords |-> <<
            <<"b","o","y","f","r","i","e","n","d">>,   \* boyfriend
            <<"g","i","r","l","f","r","i","e","n","d">>,   \* girlfriend
            <<"d","a","t","i","n","g">>,   \* dating
            <<"r","e","l","a","t","i","o","n","s","h","i","p">>,   \* relationship
            <<"c","r","u","s","h">>,   \* crush
            <<"l","o","v","e">>   \* love
          >> ],
       [ topic |-> "anxiety", keywords |-> <<
            <<"a","n","x","i","o","u","s">>,   \* anxious
            <<"a","n","x","i","e","t","y">>,   \* anxiety
            <<"w","o","r","r","i","e","d">>,   \* worried
            <<"n","e","r","v","o","u","s">>,   \* nervous
            <<"p","a","n","i","c">>,   \* panic
            <<"s","t","r","e","s","s">>,   \* stress
            <<"o","v","e","r","w","h","e","l","m","e","d">>   \* overwhelmed
          >> ],
       [ topic |-> "depression", keywords |-> <<
            <<"d","e","p","r","e","s","s","e","d">>,   \* depressed
            <<"s","a","d">>,   \* sad
            <<"d","e","p","r","e","s","s","i","o","n">>,   \* depression
            <<"h","o","p","e","l","e","s","s">>,   \* hopeless
            <<"e","m","p","t","y">>,   \* empty
            <<"n","u","m","b">>   \* numb
          >> ],
       [ topic |-> "selfEsteem", keywords |-> <<
            <<"u","g","l","y">>,   \* ugly
            <<"f","a","t">>,   \* fat
            <<"w","o","r","t","h","l","e","s","s">>,   \* worthless
            <<"h","a","t","e"," ","m","y","s","e","l","f">>,   \* hate myself
            <<"i","n","s","e","c","u","r","e">>,   \* insecure
            <<"c","o","n","f","i","d","e","n","c","e">>   \* confidence
          >> ],
       [ topic |-> "bullying", keywords |-> <<
            <<"b","u","l","l","y">>,   \* bully
            <<"b","u","l","l","y","i","n","g">>,   \* bullying
            <<"t","e","a","s","i","n","g">>,   \* teasing
            <<"m","e","a","n">>,   \* mean
            <<"p","i","c","k","i","n","g"," ","o","n">>   \* picking on
          >> ],
       [ topic |-> "lgbtq", keywords |-> <<
            <<"g","a","y">>,   \* gay
            <<"l","e","s","b","i","a","n">>,   \* lesbian
            <<"t","r","a","n","s">>,   \* trans
            <<"q","u","e","e","r">>,   \* queer
            <<"l","g","b","t","q">>,   \* lgbtq
            <<"c","o","m","i","n","g"," ","o","u","t">>,   \* coming out
            <<"s","e","x","u","a","l","i","t","y">>,   \* sexuality
            <<"g","e","n","d","e","r">>   \* gender
          >> ] >>

RECURSIVE firstTopic(_, _)
firstTopic(lowerMessage, i) ==
    IF i > Len(topics) THEN "general"
    ELSE IF countIncluded(lowerMessage, topics[i].keywords) > 0
         THEN topics[i].topic
         ELSE firstTopic(lowerMessage, i + 1)

extractTopic(message) == firstTopic(toLowerCase(message), 1)


(***************************************************************************)
(* Inbound messages                                                        *)
(***************************************************************************)

\* How many times handleIncomingMessage is called in one behaviour
MaxCalls == 1

\* How many calls can be in progress at once; call t runs as task t
MaxTasks == 2

\* How many times storeMessage is called on its own in one behaviour
MaxStores == 3

\* The last reading of the clock, in hours; it starts at 0
MaxTime == 2

\* How many times cleanupSessions is called in one behaviour
MaxCleanups == 2

\* How many entries the tables given to cleanupSessions on its own have
MaxEntries == 3

Tasks == 1..MaxTasks

\* "I had a good day today" (none: only the immediate-risk keyword 'today')
TextGoodDay ==
    <<"I"," ","h","a","d"," ","a"," ","g","o","o","d"," ","d","a","y"," ","t","o","d","a","y">>

\* "I am addicted to games" (low: one substance keyword, score 5)
TextAddicted ==
    <<"I"," ","a","m"," ","a","d","d","i","c","t","e","d"," ","t","o"," ","g","a","m","e","s">>

\* "I want to kill myself" (one suicide keyword, score 10)
TextKillMyself ==
    <<"I"," ","w","a","n","t"," ","t","o"," ","k","i","l","l"," ","m","y","s","e","l","f">>

\* "I am going to kill myself" (two suicide keywords, score 20)
TextGoingToKill ==
    <<"I"," ","a","m"," ","g","o","i","n","g"," ","t","o"," ","k","i","l","l"," ","m","y","s","e","l","f">>

\* "I want to die right now tonight" (one suicide keyword and two immediate-risk keywords, score 40)
TextDieRightNow ==
    <<"I"," ","w","a","n","t"," ","t","o"," ","d","i","e"," ","r","i","g","h","t"," ","n","o","w"," ","t","o","n","i","g","h","t">>

\* " HELP " (the help command, padded and in upper case)
TextHelp ==
    <<" ","H","E","L","P"," ">>

\* "/kill myself" (a slash command whose text holds a suicide keyword)
TextSlashKill ==
    <<"/","k","i","l","l"," ","m","y","s","e","l","f">>

\* The values handleIncomingMessage is called with.  The webhook passes only
\* validated strings; processMessageQueue and handleCheckInResponse pass
\* whatever they were given, so null and a number are inputs too.
Inbound ==
    << [ type |-> "string", text |-> TextGoodDay ],
       [ type |-> "string", text |-> TextAddicted ],
       [ type |-> "string", text |-> TextKillMyself ],
       [ type |-> "string", text |-> TextGoingToKill ],
       [ type |-> "string", text |-> TextDieRightNow ],
       [ type |-> "string", text |-> TextHelp ],
       [ type |-> "string", text |-> TextSlashKill ],
       [ type |-> "null",   text |-> null ],
       [ type |-> "number", text |-> null ] >>

Messages == 1..Len(Inbound)

\* The inbound messages that are strings
Strings == { m \in Messages : Inbound[m].type = "string" }

\* What the pure functions of safety.js, commands.js and aiEngine.js return
\* for each inbound string
assessmentOf == [ m \in Strings |-> assessRisk(Inbound[m].text) ]

commandOf == [ m \in Strings |-> isCommand(Inbound[m].text) ]

commandResponseOf == [ m \in Strings |-> handleCommand(Inbound[m].text) ]

sentimentOf == [ m \in Strings |-> analyzeSentiment(Inbound[m].text) ]

topicOf == [ m \in Strings |-> extractTopic(Inbound[m].text) ]

(***************************************************************************)
(* sessionManager.js: the session object and the objects that hold it      *)
(***************************************************************************)

\* No object: undefined, a cache miss, an unset local
NoSession == [ absent |-> TRUE ]

NoAssessment == [ absent |-> TRUE ]

NoContext == [ absent |-> TRUE ]

NoResponse == [ absent |-> TRUE ]

NoResult == [ absent |-> TRUE ]

NoRow == [ absent |-> TRUE ]

\* Variant of createNewSession: the new session is not marked first-time
createNewSessionSeen(at) ==
    [ conversationContext |-> << >>,
      currentTopic |-> "null",
      mood |-> "null",
      riskLevel |-> "none",
      lastActivity |-> at,
      messageCount |-> 0,
      isFirstTime |-> FALSE,
      preferences |-> {},
      flags |-> [ needsCheckIn |-> FALSE, inCrisis |-> FALSE,
                  hasSeenResources |-> FALSE ],
      checkInReason |-> "undefined" ]

\* createNewSession(phoneNumber) at time `at`
createNewSession(at) ==
    [ conversationContext |-> << >>,
      currentTopic |-> "null",
      mood |-> "null",
      riskLevel |-> "none",
      lastActivity |-> at,
      messageCount |-> 0,
      isFirstTime |-> TRUE,
      preferences |-> {},
      flags |-> [ needsCheckIn |-> FALSE, inCrisis |-> FALSE,
                  hasSeenResources |-> FALSE ],
      checkInReason |-> "undefined" ]

\* const levels = { none: 0, low: 1, medium: 2, high: 3, critical: 4 }
levels ==
    [ none |-> 0, low |-> 1, medium |-> 2, high |-> 3, critical |-> 4 ]

compareRiskLevels(level1, level2) == levels[level1] - levels[level2]

\* Variant of updateContextBody: the exchange is pushed but not counted
updateContextUncounted(session, userMessage, assistantResponse, assessment, at) ==
    [ session EXCEPT
        !.conversationContext =
            Append(@, [ user |-> userMessage, assistant |-> assistantResponse,
                        timestamp |-> at, riskLevel |-> assessment.level ]),
        !.isFirstTime = FALSE,
        !.riskLevel =
            IF compareRiskLevels(assessment.level, @) > 0
            THEN assessment.level ELSE @ ]

\* Variant of updateContextBody: the level of the assessment always replaces
\* the level of the session
updateContextOverwrite(session, userMessage, assistantResponse, assessment, at) ==
    [ session EXCEPT
        !.conversationContext =
            Append(@, [ user |-> userMessage, assistant |-> assistantResponse,
                        timestamp |-> at, riskLevel |-> assessment.level ]),
        !.messageCount = @ + 1,
        !.isFirstTime = FALSE,
        !.riskLevel = assessment.level ]

\* The body of updateContext between getSession and saveSession
updateContextBody(session, userMessage, assistantResponse, assessment, at) ==
    LET pushed == Append(session.conversationContext,
                         [ user |-> userMessage,
                           assistant |-> assistantResponse,
                           timestamp |-> at,
                           riskLevel |-> assessment.level ])
        kept   == IF Len(pushed) > 10
                  THEN SubSeq(pushed, Len(pushed) - 9, Len(pushed))
                  ELSE pushed
    IN  [ session EXCEPT
            !.conversationContext = kept,
            !.messageCount = @ + 1,
            !.isFirstTime = FALSE,
            !.riskLevel =
                IF compareRiskLevels(assessment.level, @) > 0
                THEN assessment.level ELSE @,
            !.flags =
                [ @ EXCEPT
                    !.inCrisis =
                        IF assessment.level = "critical"
                           \/ assessment.level = "high"
                        THEN TRUE ELSE @,
                    !.hasSeenResources =
                        IF Len(assessment.resources) > 0 THEN TRUE ELSE @ ] ]

\* The places that hold a reference to a session object: the entry of the
\* in-memory Map this.sessions, the local `session` of a SessionManager call,
\* and the `context` of a handler (context.flags is session.flags).
MapEntry == << "sessions", 0 >>

Local(t) == << "session", t >>

Context(t) == << "context", t >>

Holders ==
    {MapEntry} \cup { Local(t) : t \in Tasks } \cup { Context(t) : t \in Tasks }

\* A heap H is [val, same]: val[h] is the object h refers to, same[h] the
\* holders that refer to the very same object (so a write through one is seen
\* through all of them).
EmptyHeap ==
    [ val |-> [ h \in Holders |-> NoSession ],
      same |-> [ h \in Holders |-> {} ] ]

\* h = undefined
Unbind(H, h) ==
    [ val |-> [ H.val EXCEPT ![h] = NoSession ],
      same |-> [ g \in Holders |->
                   IF g = h THEN {} ELSE H.same[g] \ {h} ] ]

\* h = a new object x (JSON.parse, createNewSession)
BindFresh(H, h, x) ==
    LET U == Unbind(H, h)
    IN  [ val |-> [ U.val EXCEPT ![h] = x ],
          same |-> [ U.same EXCEPT ![h] = {h} ] ]

\* h = g, where g holds an object
BindSame(H, h, g) ==
    IF h \in H.same[g] THEN H
    ELSE LET U   == Unbind(H, h)
             cls == U.same[g] \cup {h}
         IN  [ val |-> [ U.val EXCEPT ![h] = U.val[g] ],
               same |-> [ k \in Holders |->
                            IF k \in cls THEN cls ELSE U.same[k] ] ]

\* A write to the object h refers to, as x
WriteObj(H, h, x) ==
    [ val |-> [ k \in Holders |-> IF k \in H.same[h] THEN x ELSE H.val[k] ],
      same |-> H.same ]

(***************************************************************************)
(* memory.js: the durable store                                            *)
(***************************************************************************)

Alphabet ==
    <<"a","b","c","d","e","f","g","h","i","j","k","l","m","n","o","p","q","r","s","t","u","v","w","x","y","z">>

\* The rank of a lower-case letter in the collation order
charCode(c) == CHOOSE i \in 1..Len(Alphabet) : Alphabet[i] = c

\* a > b on VARCHAR values: the comparison of the two texts, letter by letter
RECURSIVE textGreater(_, _)
textGreater(a, b) ==
    IF a = << >> THEN FALSE
    ELSE IF b = << >> THEN TRUE
    ELSE IF Head(a) = Head(b) THEN textGreater(Tail(a), Tail(b))
    ELSE charCode(Head(a)) > charCode(Head(b))

\* The letters of each risk_level value
spelling ==
    [ none |-> <<"n","o","n","e">>,
      low |-> <<"l","o","w">>,
      medium |-> <<"m","e","d","i","u","m">>,
      high |-> <<"h","i","g","h">>,
      critical |-> <<"c","r","i","t","i","c","a","l">> ]

\* WHERE ... (risk_level = 'none' OR $1 > risk_level)
riskLevelUpdated(current, riskLevel) ==
    IF current = "none" \/ textGreater(spelling[riskLevel], spelling[current])
    THEN riskLevel ELSE current

\* A row of users as the schema's defaults create it
newUser == [ risk_level |-> "none", total_messages |-> 0 ]

\* storeMessage on the tables D = [users, conversations].  failAt is the query
\* that fails (1 the INSERT, 2 the upsert, 3 the risk UPDATE; 0 none).  The
\* INSERT into conversations also fails when users has no row for the phone
\* number (the foreign key).  There is no transaction: what the earlier
\* queries wrote stays.
storeMessage(D, message, direction, riskLevel, failAt) ==
    LET ok1 == failAt # 1 /\ D.users # NoRow
        ok2 == ok1 /\ failAt # 2
        ok3 == ok2 /\ ~(riskLevel # "none" /\ failAt = 3)
        counted == [ D.users EXCEPT !.total_messages = @ + 1 ]
    IN  [ conversations |->
              IF ok1
              THEN Append(D.conversations,
                          [ message |-> message, direction |-> direction,
                            risk_level |-> riskLevel ])
              ELSE D.conversations,
          users |->
              IF ~ok2 THEN D.users
              ELSE IF ok3 /\ riskLevel # "none"
                   THEN [ counted EXCEPT
                            !.risk_level = riskLevelUpdated(@, riskLevel) ]
                   ELSE counted,
          ok |-> ok3 ]

(***************************************************************************)
(* messageHandler.js: control flow of handleIncomingMessage                *)
(***************************************************************************)

\* Variant of errorMessage that names no hotline
errorMessagePlain ==
    << "I'm having technical difficulties right now.",
       "I'll try to respond to your message again shortly." >>

\* I'm having technical difficulties right now. ...
errorMessage ==
    << "I'm having technical difficulties right now.", "please call ", "988",
       "or text HELLO to ", "741741",
       "I'll try to respond to your message again shortly." >>

\* if (riskAssessment.level === 'critical' || riskAssessment.level === 'high')
branchOf(assessment) ==
    IF assessment.level = "critical" \/ assessment.level = "high"
    THEN "crisis_storeIncoming" ELSE "generateResponse"

\* The statement that runs when the awaited call at `at` has returned
next(at) ==
    CASE at = "getContextForAI" -> "isCommand"
      [] at = "cmd_storeIncoming" -> "cmd_storeOutgoing"
      [] at = "cmd_storeOutgoing" -> "cmd_sendSMS"
      [] at = "cmd_sendSMS" -> "done"
      [] at = "crisis_storeIncoming" -> "crisis_storeOutgoing"
      [] at = "crisis_storeOutgoing" -> "crisis_sendSMS"
      [] at = "crisis_sendSMS" -> "crisis_generateResponse"
      [] at = "followup_sendSMS" -> "followup_storeOutgoing"
      [] at = "followup_storeOutgoing" -> "crisis_updateContext"
      [] at = "crisis_updateContext" -> "done"
      [] at = "storeIncoming" -> "storeOutgoing"
      [] at = "storeOutgoing" -> "sendSMS"
      [] at = "sendSMS" -> "updateContext"
      [] at = "updateContext" -> "updateMood"
      [] at = "updateMood" -> "setTopic"
      [] at = "setTopic" -> "done"
      [] at = "catch_sendSMS" -> "done"
      [] OTHER -> "done"

\* Variant of afterSend: a failed send is followed by a send of the fallback
afterSendRetry(at, success) ==
    IF success \/ at = "catch_sendSMS" THEN next(at) ELSE "catch_sendSMS"

\* Where control goes when sendSMS has returned: its result is not read
afterSend(at, success) == next(at)

\* Variant of afterStore: a failed store is thrown to the catch block
afterStoreThrows(at, ok) == IF ok THEN next(at) ELSE "catch_sendSMS"

\* Where control goes when storeMessage has returned: its result is not read
afterStore(at, ok) == next(at)

\* Variant of afterGenerate: the crisis branch sends the follow-up whatever
\* the outcome
afterGenerateAlways(at, success) ==
    IF at = "crisis_generateResponse" THEN "followup_sendSMS"
    ELSE "storeIncoming"

\* Variant of afterGenerate: the normal branch drops the reply when
\* generation failed
afterGenerateSilent(at, success) ==
    IF at = "crisis_generateResponse"
    THEN IF success THEN "followup_sendSMS" ELSE "crisis_updateContext"
    ELSE IF success THEN "storeIncoming" ELSE "updateContext"

\* Where control goes when generateResponse has returned
afterGenerate(at, success) ==
    IF at = "crisis_generateResponse"
    THEN IF success THEN "followup_sendSMS" ELSE "crisis_updateContext"
    ELSE "storeIncoming"

\* The calls of SessionManager that read, change and save the session
Mutators ==
    { "updateContext", "updateMood", "setTopic", "markForCheckIn",
      "clearCrisisFlag", "updatePreferences" }

\* The SessionManager call that runs at `at`
callAt(at) ==
    CASE at = "crisis_updateContext" -> "updateContext"
      [] at = "call_updateContext" -> "updateContext"
      [] at = "call_updateMood" -> "updateMood"
      [] at = "call_setTopic" -> "setTopic"
      [] at = "call_markForCheckIn" -> "markForCheckIn"
      [] at = "call_clearCrisisFlag" -> "clearCrisisFlag"
      [] at = "call_updatePreferences" -> "updatePreferences"
      [] at = "call_getContextForAI" -> "getContextForAI"
      [] OTHER -> at

\* One entry of a task's record of the calls it made
Event(ev, body, direction, riskLevel, ok) ==
    [ ev |-> ev, body |-> body, direction |-> direction,
      riskLevel |-> riskLevel, ok |-> ok ]

(***************************************************************************)
(* State                                                                   *)
(***************************************************************************)

VARIABLES
    pc,             \* pc[t]: the awaited call task t is at
    phase,          \* phase[t]: the step of the SessionManager call t is in
    messageText,    \* messageText[t]: the inbound message of task t
    riskAssessment, \* riskAssessment[t]: the result of assessRisk
    context,        \* context[t]: the result of getContextForAI
    aiResponse,     \* aiResponse[t]: the result of generateResponse
    result,         \* result[t]: what the call returned
    log,            \* log[t]: the calls task t made, in order
    heap,           \* the session objects and who refers to them
    json,           \* json[t]: the text saveSession hands to the cache
    redis,          \* the cache entry session:<phoneNumber>
    users,          \* the row of users for the phone number
    conversations,  \* the rows of conversations
    crisis_events,  \* the rows of crisis_events
    now,            \* the clock
    io,             \* io[t]: what the reads and writes of task t's
                    \* SessionManager call in progress returned
    userRateLimits, \* userRateLimits.get(phoneNumber): the times of the
                    \* requests counted against the hourly limit
    cleanups        \* the cleanupSessions calls made: when, and how many
                    \* entries each deleted

vars ==
    << pc, phase, messageText, riskAssessment, context, aiResponse, result,
       log, heap, json, redis, users, conversations, crisis_events, now, io,
       userRateLimits, cleanups >>

\* The handler's own variables
locals == << messageText, riskAssessment, context, aiResponse >>

\* The durable tables
tables == << users, conversations, crisis_events >>

\* The session stores
stores == << heap, json, redis >>

\* What server.js keeps between requests and timer calls
server == << userRateLimits, cleanups >>

\* this.sessions.get(phoneNumber)
sessions == heap.val[MapEntry]

\* The local `session` of task t's SessionManager call
session(t) == heap.val[Local(t)]

\* context.flags of task t
flags(t) == heap.val[Context(t)].flags

Init ==
    /\ pc = [ t \in Tasks |-> "idle" ]
    /\ phase = [ t \in Tasks |-> "none" ]
    /\ messageText = [ t \in Tasks |-> 0 ]
    /\ riskAssessment = [ t \in Tasks |-> NoAssessment ]
    /\ context = [ t \in Tasks |-> NoContext ]
    /\ aiResponse = [ t \in Tasks |-> NoResponse ]
    /\ result = [ t \in Tasks |-> NoResult ]
    /\ log = [ t \in Tasks |-> << >> ]
    /\ heap = EmptyHeap
    /\ json = [ t \in Tasks |-> NoSession ]
    /\ redis = NoSession
    /\ users \in { NoRow, newUser }
    /\ conversations = << >>
    /\ crisis_events = << >>
    /\ now = 0
    /\ io = [ t \in Tasks |-> << >> ]
    /\ userRateLimits = << >>
    /\ cleanups = << >>

\* The phase a task enters when control reaches `at`
phaseAt(at) ==
    IF callAt(at) \in Mutators \cup {"getContextForAI"} THEN "get" ELSE "none"

\* error.message of the TypeError the message raises
errorOf(m) ==
    IF Inbound[m].type = "null"
    THEN "Cannot read properties of null (reading 'length')"
    ELSE "message.trim is not a function"

\* The text the handler answers with, by the branch it took
responseAt(t) ==
    CASE pc[t] \in { "cmd_storeIncoming", "cmd_storeOutgoing", "cmd_sendSMS" }
           -> commandResponseOf[messageText[t]]
      [] pc[t] \in { "crisis_storeIncoming", "crisis_storeOutgoing",
                     "crisis_sendSMS", "crisis_updateContext" }
           -> generateCrisisResponse(riskAssessment[t])
      [] pc[t] = "catch_sendSMS" -> errorMessage
      [] OTHER -> aiResponse[t].message

\* The value the call returns when it ends at pc[t]
returnValue(t) ==
    CASE pc[t] = "catch_sendSMS"
           -> [ success |-> FALSE, error |-> errorOf(messageText[t]) ]
      [] pc[t] = "cmd_sendSMS"
           -> [ success |-> TRUE, response |-> responseAt(t),
                type |-> "command" ]
      [] pc[t] = "crisis_updateContext"
           -> [ success |-> TRUE, response |-> responseAt(t),
                riskLevel |-> riskAssessment[t].level,
                type |-> "conversation" ]
      [] pc[t] = "setTopic"
           -> [ success |-> TRUE, response |-> responseAt(t),
                riskLevel |-> riskAssessment[t].level,
                type |-> "conversation" ]
      [] OTHER -> [ returned |-> callAt(pc[t]) ]

\* Control of task t moves to `to`; at "done" the call returns
Goto(t, to) ==
    /\ pc' = [ pc EXCEPT ![t] = to ]
    /\ phase' = [ phase EXCEPT ![t] = phaseAt(to) ]
    /\ result' = IF to = "done"
                 THEN [ result EXCEPT ![t] = returnValue(t) ]
                 ELSE result

\* log[t] gains the entry e
Logged(t, e) == log' = [ log EXCEPT ![t] = Append(@, e) ]

(***************************************************************************)
(* Entry points                                                            *)
(***************************************************************************)

\* handleIncomingMessage(phoneNumber, messageText) is called with Inbound[m];
\* logger.logConversation reads message.length and throws on null, and the
\* catch block logs the error
Receive(t, m) ==
    /\ pc[t] = "idle"
    /\ t <= MaxCalls
    /\ \A u \in Tasks : u < t => pc[u] = "done"
    /\ messageText' = [ messageText EXCEPT ![t] = m ]
    /\ pc' = [ pc EXCEPT ![t] =
                 IF Inbound[m].type = "null" THEN "catch_sendSMS"
                 ELSE "getContextForAI" ]
    /\ phase' = [ phase EXCEPT ![t] =
                    IF Inbound[m].type = "null" THEN "none" ELSE "get" ]
    /\ log' = [ log EXCEPT ![t] =
                   IF Inbound[m].type = "null"
                   THEN Append(@, Event("logError", null, "", "", TRUE))
                   ELSE @ ]
    /\ UNCHANGED << riskAssessment, context, aiResponse, result, stores,
                    tables, now, server, io >>

\* The SessionManager calls other callers make, and the pc each runs at
Calls ==
    { "call_getContextForAI", "call_updateContext", "call_updateMood",
      "call_setTopic", "call_markForCheckIn", "call_clearCrisisFlag",
      "call_updatePreferences" }

\* A caller other than the handler calls SessionManager: updateContext with
\* the assessment of Inbound[m] and a generated reply, updateMood and setTopic
\* with what Inbound[m] gives.  Calls may overlap.
Call(t, call, m) ==
    /\ pc[t] = "idle"
    /\ \A u \in Tasks : u < t => pc[u] # "idle"
    /\ call \in Calls
    /\ pc' = [ pc EXCEPT ![t] = call ]
    /\ phase' = [ phase EXCEPT ![t] = "get" ]
    /\ messageText' = [ messageText EXCEPT ![t] = m ]
    /\ riskAssessment' =
           [ riskAssessment EXCEPT ![t] = assessmentOf[m] ]
    /\ aiResponse' = [ aiResponse EXCEPT ![t] =
                         [ success |-> TRUE, message |-> generatedText ] ]
    /\ UNCHANGED << context, result, log, stores, tables, now, server, io >>

\* A caller other than the handler calls memory.storeMessage
StoreCall(direction, riskLevel, failAt) ==
    /\ Len(log[1]) < MaxStores
    /\ LET stored == storeMessage([ users |-> users,
                                    conversations |-> conversations ],
                                  null, direction, riskLevel, failAt)
       IN  /\ users' = stored.users
           /\ conversations' = stored.conversations
           /\ Logged(1, Event("storeMessage", null, direction, riskLevel,
                              stored.ok))
    /\ UNCHANGED << pc, phase, locals, result, stores, crisis_events, now, server, io >>

(***************************************************************************)
(* SessionManager: the decisions inside getSession, saveSession and        *)
(* getContextForAI                                                         *)
(***************************************************************************)

\* Variant of readPath: the Map is asked before the cache
readPathTableFirst(cached, table) ==
    IF table # NoSession THEN "table"
    ELSE IF cached # NoSession THEN "cache"
    ELSE "new"

\* getSession: where the session comes from.  `cached` is what
\* memory.getSession returned ({} on a miss or an error), `table` what
\* this.sessions.get returns
readPath(cached, table) ==
    IF cached # NoSession THEN "cache"
    ELSE IF table # NoSession THEN "table"
    ELSE "new"

\* Variant of stamped: the stamp also counts a message
stampedCounted(sess, at) ==
    [ sess EXCEPT !.lastActivity = at, !.messageCount = @ + 1 ]

\* session.lastActivity = new Date().toISOString()
stamped(sess, at) == [ sess EXCEPT !.lastActivity = at ]

\* Variant of fallbackSet: the Map is written only when the cache write failed
fallbackSetOnFailure(H, t, written) ==
    IF written THEN H ELSE BindSame(H, MapEntry, Local(t))

\* this.sessions.set(phoneNumber, sess) in saveSession; `written` is what
\* memory.updateSession returned
fallbackSet(H, t, written) == BindSame(H, MapEntry, Local(t))

\* What saveSession returns: true after the try block, false from the catch
\* block; memory.updateSession returns false instead of throwing, so `threw`
\* is never true and `written` is not read
saveSessionResult(written, threw) == ~threw

\* session.conversationContext.slice(-5)
recentMessages(sess) ==
    LET c == sess.conversationContext
    IN  IF Len(c) > 5 THEN SubSeq(c, Len(c) - 4, Len(c)) ELSE c

\* Variant of contextOf: the stub is returned when no profile was read
contextStubbed(sess, userProfile) ==
    IF userProfile = NoRow THEN [ isFirstTime |-> TRUE ]
    ELSE [ isFirstTime |-> sess.isFirstTime,
           messageCount |-> sess.messageCount,
           currentTopic |-> sess.currentTopic,
           mood |-> sess.mood,
           riskLevel |-> sess.riskLevel,
           recentMessages |-> recentMessages(sess),
           userProfile |-> [ totalMessages |-> userProfile.total_messages,
                             riskLevel |-> userProfile.risk_level ] ]

\* The object getContextForAI returns; `userProfile` is what
\* memory.getUserProfile returned (null on no row or on an error).
\* context.flags is session.flags itself: see Context(t)
contextOf(sess, userProfile) ==
    [ isFirstTime |-> sess.isFirstTime,
      messageCount |-> sess.messageCount,
      currentTopic |-> sess.currentTopic,
      mood |-> sess.mood,
      riskLevel |-> sess.riskLevel,
      recentMessages |-> recentMessages(sess),
      userProfile |->
          IF userProfile # NoRow
          THEN [ totalMessages |-> userProfile.total_messages,
                 riskLevel |-> userProfile.risk_level ]
          ELSE NoRow ]

\* io[t] gains the entry e
Returns(t, e) == io' = [ io EXCEPT ![t] = Append(@, e) ]

\* What the last call of `ev` in task t's SessionManager call returned
lastOf(t, ev) ==
    LET found == SelectSeq(io[t], LAMBDA e : e.ev = ev)
    IN  found[Len(found)]

(***************************************************************************)
(* SessionManager: getSession, saveSession and the calls built on them     *)
(***************************************************************************)

\* getSession: the cache is read first (a hit gives a new copy, a miss or an
\* error gives {}), then the Map, and a new session is created and saved when
\* both have none.
GetSession(t) ==
    /\ phase[t] = "get"
    /\ \E outcome \in (IF redis # NoSession THEN { "hit", "error" }
                       ELSE { "miss", "error" }) :
         LET cached == IF outcome = "hit" THEN redis ELSE NoSession
             source == readPath(cached, sessions)
             got    == CASE source = "cache"
                              -> BindFresh(heap, Local(t), redis)
                         [] source = "table"
                              -> BindSame(heap, Local(t), MapEntry)
                         [] OTHER
                              -> BindFresh(heap, Local(t), createNewSession(now))
         IN  /\ io' = [ io EXCEPT ![t] =
                          << [ ev |-> "memory.getSession",
                               outcome |-> outcome, source |-> source ] >> ]
             /\ IF source # "new"
                THEN /\ heap' = WriteObj(got, Local(t),
                                         stamped(got.val[Local(t)], now))
                     /\ phase' = [ phase EXCEPT ![t] =
                                     IF callAt(pc[t]) = "getContextForAI"
                                     THEN "reads" ELSE "mutate" ]
                     /\ UNCHANGED json
                ELSE /\ heap' = got
                     /\ json' = [ json EXCEPT ![t] = createNewSession(now) ]
                     /\ phase' = [ phase EXCEPT ![t] = "new_write" ]
    /\ UNCHANGED << pc, locals, result, log, redis, tables, now, server >>

\* memory.updateSession inside saveSession: the cache takes the text and true
\* is returned, or the write fails (or the client is not open) and false is
\* returned
SaveSessionWrite(t) ==
    /\ phase[t] \in { "new_write", "save_write" }
    /\ \E ok \in BOOLEAN :
         /\ redis' = IF ok THEN json[t] ELSE redis
         /\ Returns(t, [ ev |-> "updateSession", ok |-> ok ])
    /\ phase' = [ phase EXCEPT ![t] =
                    IF phase[t] = "new_write" THEN "new_set" ELSE "save_set" ]
    /\ UNCHANGED << pc, locals, result, log, heap, json, tables, now, server >>

\* this.sessions.set(phoneNumber, session), the return of saveSession, and
\* what follows it: in getSession the lastActivity stamp, in a mutator the
\* return to the caller
SaveSessionSet(t) ==
    /\ phase[t] \in { "new_set", "save_set" }
    /\ LET written == lastOf(t, "updateSession").ok
           set     == fallbackSet(heap, t, written)
       IN  /\ Returns(t, [ ev |-> "saveSession",
                           ok |-> saveSessionResult(written, FALSE) ])
           /\ IF phase[t] = "new_set"
              THEN /\ heap' = WriteObj(set, Local(t),
                                       stamped(set.val[Local(t)], now))
                   /\ phase' = [ phase EXCEPT ![t] =
                                   IF callAt(pc[t]) = "getContextForAI"
                                   THEN "reads" ELSE "mutate" ]
                   /\ UNCHANGED << pc, result, context >>
              ELSE /\ Goto(t, next(pc[t]))
                   /\ heap' = IF next(pc[t]) = "done"
                              THEN Unbind(Unbind(set, Local(t)), Context(t))
                              ELSE Unbind(set, Local(t))
                   /\ context' = IF next(pc[t]) = "done"
                                 THEN [ context EXCEPT ![t] = NoContext ]
                                 ELSE context
    /\ UNCHANGED << messageText, riskAssessment, aiResponse, log, json, redis,
                    tables, now, server >>

\* getContextForAI after getSession: the history and the profile are read
\* (each read returns its empty value on an error) and the context is built;
\* the history is not used in it.  io[t] also keeps what flags.inCrisis was
\* when the context was built.
ContextReads(t) ==
    /\ phase[t] = "reads"
    /\ \E historyRead \in BOOLEAN, profileRead \in BOOLEAN :
         LET userProfile == IF profileRead THEN users ELSE NoRow
         IN  /\ context' = [ context EXCEPT ![t] =
                               contextOf(session(t), userProfile) ]
             /\ io' = [ io EXCEPT ![t] =
                          @ \o << [ ev |-> "getContextForAI", ok |-> TRUE,
                                    inCrisis |-> session(t).flags.inCrisis ],
                                  [ ev |-> "getConversationHistory",
                                    ok |-> historyRead ],
                                  [ ev |-> "getUserProfile",
                                    ok |-> profileRead ] >> ]
    /\ heap' = Unbind(BindSame(heap, Context(t), Local(t)), Local(t))
    /\ Goto(t, next(pc[t]))
    /\ UNCHANGED << messageText, riskAssessment, aiResponse, log, json, redis,
                    tables, now, server >>

\* The body of a mutator between getSession and the await inside saveSession:
\* the session object becomes `changed` and is turned into text for the cache
Mutate(t, changed) ==
    /\ heap' = WriteObj(heap, Local(t), changed)
    /\ json' = [ json EXCEPT ![t] = changed ]
    /\ phase' = [ phase EXCEPT ![t] = "save_write" ]
    /\ UNCHANGED << pc, locals, result, redis, tables, now, server, io >>

\* The assistantResponse argument of updateContext
assistantResponse(t) ==
    IF pc[t] = "crisis_updateContext"
    THEN generateCrisisResponse(riskAssessment[t])
         \o (IF aiResponse[t].success THEN aiResponse[t].message ELSE << >>)
    ELSE aiResponse[t].message

UpdateContext(t) ==
    /\ phase[t] = "mutate"
    /\ callAt(pc[t]) = "updateContext"
    /\ Mutate(t,
              updateContextBody(session(t), messageText[t],
                                assistantResponse(t), riskAssessment[t], now))
    /\ Logged(t, Event("updateContext", null, "", riskAssessment[t].level, TRUE))

UpdateMood(t) ==
    /\ phase[t] = "mutate"
    /\ callAt(pc[t]) = "updateMood"
    /\ Mutate(t,
              [ session(t) EXCEPT
                  !.mood = sentimentOf[messageText[t]] ])
    /\ UNCHANGED log

SetTopic(t) ==
    /\ phase[t] = "mutate"
    /\ callAt(pc[t]) = "setTopic"
    /\ Mutate(t,
              [ session(t) EXCEPT
                  !.currentTopic = topicOf[messageText[t]] ])
    /\ UNCHANGED log

MarkForCheckIn(t) ==
    /\ phase[t] = "mutate"
    /\ callAt(pc[t]) = "markForCheckIn"
    /\ Mutate(t,
              [ session(t) EXCEPT !.flags.needsCheckIn = TRUE,
                                  !.checkInReason = "reason" ])
    /\ UNCHANGED log

ClearCrisisFlag(t) ==
    /\ phase[t] = "mutate"
    /\ callAt(pc[t]) = "clearCrisisFlag"
    /\ Mutate(t,
              [ session(t) EXCEPT !.flags.inCrisis = FALSE ])
    /\ UNCHANGED log

UpdatePreferences(t) ==
    /\ phase[t] = "mutate"
    /\ callAt(pc[t]) = "updatePreferences"
    /\ Mutate(t,
              [ session(t) EXCEPT !.preferences = @ \cup {"language"} ])
    /\ UNCHANGED log

(***************************************************************************)
(* messageHandler.js: the steps of handleIncomingMessage                   *)
(***************************************************************************)

\* commands.isCommand(messageText), then either the command branch or
\* safety.assessRisk and the choice of branch.  message.trim() throws on a
\* number.
Route(t) ==
    /\ pc[t] = "isCommand"
    /\ LET message == Inbound[messageText[t]]
       IN  IF message.type # "string"
           THEN /\ Goto(t, "catch_sendSMS")
                /\ Logged(t, Event("logError", null, "", "", TRUE))
                /\ UNCHANGED riskAssessment
           ELSE IF commandOf[messageText[t]]
           THEN /\ Goto(t, "cmd_storeIncoming")
                /\ Logged(t, Event("handleCommand",
                                   commandResponseOf[messageText[t]], "", "",
                                   TRUE))
                /\ UNCHANGED riskAssessment
           ELSE LET assessment == assessmentOf[messageText[t]]
                IN  /\ riskAssessment' =
                           [ riskAssessment EXCEPT ![t] = assessment ]
                    /\ Logged(t, Event("assessRisk", null, "",
                                       assessment.level, TRUE))
                    /\ Goto(t, IF requiresHumanEscalation(assessment)
                               THEN "storeCrisisEvent"
                               ELSE branchOf(assessment))
    /\ UNCHANGED << messageText, context, aiResponse, stores, tables, now, server, io >>

\* memory.storeCrisisEvent: the INSERT fails on an error or on the foreign
\* key, and null is returned
StoreCrisisEvent(t) ==
    /\ pc[t] = "storeCrisisEvent"
    /\ \E fail \in BOOLEAN :
         LET ok == ~fail /\ users # NoRow
         IN  /\ crisis_events' =
                    IF ok
                    THEN Append(crisis_events,
                           [ risk_level |-> riskAssessment[t].level,
                             risk_categories |-> riskAssessment[t].categories,
                             message_preview |-> Inbound[messageText[t]].text ])
                    ELSE crisis_events
             /\ Logged(t, Event("storeCrisisEvent", null, "",
                                riskAssessment[t].level, ok))
    /\ Goto(t, branchOf(riskAssessment[t]))
    /\ UNCHANGED << locals, stores, users, conversations, now, server, io >>

StorePoints ==
    { "cmd_storeIncoming", "cmd_storeOutgoing", "crisis_storeIncoming",
      "crisis_storeOutgoing", "followup_storeOutgoing", "storeIncoming",
      "storeOutgoing" }

IncomingPoints == { "cmd_storeIncoming", "crisis_storeIncoming", "storeIncoming" }

CommandPoints == { "cmd_storeIncoming", "cmd_storeOutgoing", "cmd_sendSMS" }

\* The arguments of the storeMessage call at pc[t]
storeArguments(t) ==
    [ message |-> IF pc[t] \in IncomingPoints
                  THEN Inbound[messageText[t]].text
                  ELSE responseAt(t),
      direction |-> IF pc[t] \in IncomingPoints THEN "incoming" ELSE "outgoing",
      riskLevel |-> IF pc[t] \in CommandPoints THEN "none"
                    ELSE riskAssessment[t].level ]

\* await memory.storeMessage(...)
StoreMessage(t) ==
    /\ pc[t] \in StorePoints
    /\ \E failAt \in 0..3 :
         LET a      == storeArguments(t)
             stored == storeMessage([ users |-> users,
                                      conversations |-> conversations ],
                                    a.message, a.direction, a.riskLevel, failAt)
         IN  /\ users' = stored.users
             /\ conversations' = stored.conversations
             /\ Logged(t, Event("storeMessage", a.message, a.direction,
                                a.riskLevel, stored.ok))
             /\ Goto(t, afterStore(pc[t], stored.ok))
    /\ UNCHANGED << locals, stores, crisis_events, now, server, io >>

SendPoints ==
    { "cmd_sendSMS", "crisis_sendSMS", "followup_sendSMS", "sendSMS",
      "catch_sendSMS" }

\* await twilioService.sendSMS(phoneNumber, body): it returns
\* { success: true } or logs the error and returns { success: false }
SendSMS(t) ==
    /\ pc[t] \in SendPoints
    /\ \E success \in BOOLEAN :
         /\ Logged(t, Event("sendSMS", responseAt(t), "outgoing", "", success))
         /\ Goto(t, afterSend(pc[t], success))
         /\ heap' = IF afterSend(pc[t], success) = "done"
                    THEN Unbind(heap, Context(t)) ELSE heap
         /\ context' = IF afterSend(pc[t], success) = "done"
                       THEN [ context EXCEPT ![t] = NoContext ] ELSE context
    /\ UNCHANGED << messageText, riskAssessment, aiResponse, json, redis,
                    tables, now, server, io >>

\* await aiEngine.generateResponse(messageText, phoneNumber, context): it
\* returns the generated text, or on any error the fallback text
GenerateResponse(t) ==
    /\ pc[t] \in { "generateResponse", "crisis_generateResponse" }
    /\ \E success \in BOOLEAN :
         LET inCrisis == pc[t] = "crisis_generateResponse" \/ flags(t).inCrisis
             message  == IF success THEN generatedText
                         ELSE getFallbackResponse(inCrisis)
         IN  /\ aiResponse' = [ aiResponse EXCEPT ![t] =
                                  [ success |-> success, message |-> message ] ]
             /\ Logged(t, Event("generateResponse", message, "", "", success))
             /\ Goto(t, afterGenerate(pc[t], success))
    /\ UNCHANGED << messageText, riskAssessment, context, stores, tables, now, server, io >>

Next ==
    \E t \in Tasks :
        \/ \E m \in Messages : Receive(t, m)
        \/ GetSession(t)
        \/ SaveSessionWrite(t)
        \/ SaveSessionSet(t)
        \/ ContextReads(t)
        \/ Route(t)
        \/ StoreCrisisEvent(t)
        \/ StoreMessage(t)
        \/ SendSMS(t)
        \/ GenerateResponse(t)
        \/ UpdateContext(t)
        \/ UpdateMood(t)
        \/ SetTopic(t)

Spec == Init /\ [][Next]_vars

\* The messages whose assessments cover the five risk levels
LevelMessages == { m \in Strings : ~commandOf[m] }

\* SessionManager under overlapping calls
NextSessions ==
    \E t \in Tasks :
        \/ \E m \in LevelMessages : Call(t, "call_updateContext", m)
        \/ \E call \in Calls \ {"call_updateContext"} : Call(t, call, 1)
        \/ GetSession(t)
        \/ SaveSessionWrite(t)
        \/ SaveSessionSet(t)
        \/ ContextReads(t)
        \/ UpdateContext(t)
        \/ UpdateMood(t)
        \/ SetTopic(t)
        \/ MarkForCheckIn(t)
        \/ ClearCrisisFlag(t)
        \/ UpdatePreferences(t)

SpecSessions == Init /\ [][NextSessions]_vars

\* A call of SessionManager made when no other call is in progress
CallAlone(t, call, m) ==
    /\ \A u \in Tasks : pc[u] \in { "idle", "done" }
    /\ Call(t, call, m)

\* The clock moves on: Date.now() and new Date() read a later time
Tick ==
    /\ now < MaxTime
    /\ now' = now + 1
    /\ UNCHANGED << pc, phase, locals, result, log, stores, tables, io,
                    server >>

\* SessionManager under calls that do not overlap, with time passing
NextSequential ==
    \/ Tick
    \/ \E t \in Tasks :
        \/ \E m \in LevelMessages : CallAlone(t, "call_updateContext", m)
        \/ \E call \in Calls \ {"call_updateContext"} : CallAlone(t, call, 1)
        \/ GetSession(t)
        \/ SaveSessionWrite(t)
        \/ SaveSessionSet(t)
        \/ ContextReads(t)
        \/ UpdateContext(t)
        \/ UpdateMood(t)
        \/ SetTopic(t)
        \/ MarkForCheckIn(t)
        \/ ClearCrisisFlag(t)
        \/ UpdatePreferences(t)

SpecSequential == Init /\ [][NextSequential]_vars

\* A SessionManager call made by another caller while a handler is running
CallBeside(t, call, m) ==
    /\ t > MaxCalls
    /\ Call(t, call, m)

\* The assessments that set flags.inCrisis
CrisisMessages ==
    { m \in LevelMessages : requiresHumanEscalation(assessmentOf[m]) }

\* handleIncomingMessage as far as the reply it chooses (the stores, the send
\* and the session updates that follow are left out), beside an updateContext
\* or a clearCrisisFlag of another caller for the same identifier
NextReply ==
    \E t \in Tasks :
        \/ \E m \in Messages : Receive(t, m)
        \/ \E m \in CrisisMessages : CallBeside(t, "call_updateContext", m)
        \/ CallBeside(t, "call_clearCrisisFlag", 1)
        \/ GetSession(t)
        \/ SaveSessionWrite(t)
        \/ SaveSessionSet(t)
        \/ ContextReads(t)
        \/ Route(t)
        \/ StoreCrisisEvent(t)
        \/ GenerateResponse(t)
        \/ UpdateContext(t)
        \/ ClearCrisisFlag(t)

SpecReply == Init /\ [][NextReply]_vars

(***************************************************************************)
(* server.js: POST /webhook/sms, and validateMessage of messageHandler.js  *)
(***************************************************************************)

\* if (message.length > 10000)
MaxLength == 10000

\* hourLimit = parseInt(process.env.RATE_LIMIT_HOUR || '20'), set to 1 here
hourLimit == 1

\* hourWindow = 60 * 60 * 1000: one hour; the clock `now` counts hours
hourWindow == 1

\* ""
TextEmpty == << >>

\* " \n " (white space only)
TextBlank == << " ", "\n", " " >>

\* A text of exactly 10000 characters
TextLongest == [ i \in 1..MaxLength |-> "a" ]

\* A text of 10001 characters
TextTooLong == [ i \in 1..(MaxLength + 1) |-> "a" ]

\* The values of req.body.Body: the inbound messages, and the empty, blank,
\* longest, too long and missing (undefined) ones
Bodies ==
    Inbound \o
    << [ type |-> "string", text |-> TextEmpty ],
       [ type |-> "string", text |-> TextBlank ],
       [ type |-> "string", text |-> TextLongest ],
       [ type |-> "string", text |-> TextTooLong ],
       [ type |-> "undefined", text |-> null ] >>

\* Variant of validateMessage: the text is not trimmed before it is measured
validateMessageUntrimmed(message) ==
    IF message.type # "string" \/ message.text = << >>
    THEN [ valid |-> FALSE, reason |-> "Invalid message format" ]
    ELSE IF Len(message.text) = 0
    THEN [ valid |-> FALSE, reason |-> "Empty message" ]
    ELSE IF Len(message.text) > MaxLength
    THEN [ valid |-> FALSE, reason |-> "Message too long" ]
    ELSE [ valid |-> TRUE, reason |-> "" ]

\* validateMessage(message): !message is true of null, undefined and ""
validateMessage(message) ==
    IF message.type # "string" \/ message.text = << >>
    THEN [ valid |-> FALSE, reason |-> "Invalid message format" ]
    ELSE IF Len(trim(message.text)) = 0
    THEN [ valid |-> FALSE, reason |-> "Empty message" ]
    ELSE IF Len(message.text) > MaxLength
    THEN [ valid |-> FALSE, reason |-> "Message too long" ]
    ELSE [ valid |-> TRUE, reason |-> "" ]

\* What validateMessage returns for each body
validationOf == [ b \in DOMAIN Bodies |-> validateMessage(Bodies[b]) ]

\* Variant of checkUserRateLimit: the request is refused only when the
\* requests of the last hour exceed the limit
checkUserRateLimitOver(requests, at) ==
    LET recentRequests ==
            SelectSeq(requests, LAMBDA timestamp : at - timestamp < hourWindow)
    IN  IF Len(recentRequests) > hourLimit
        THEN [ allowed |-> FALSE, requests |-> recentRequests ]
        ELSE [ allowed |-> TRUE, requests |-> Append(recentRequests, at) ]

\* checkUserRateLimit(phoneNumber) at time `at`: the requests of the last
\* hour are kept, and the request is counted unless the limit is reached
checkUserRateLimit(requests, at) ==
    LET recentRequests ==
            SelectSeq(requests, LAMBDA timestamp : at - timestamp < hourWindow)
    IN  IF Len(recentRequests) >= hourLimit
        THEN [ allowed |-> FALSE, requests |-> recentRequests ]
        ELSE [ allowed |-> TRUE, requests |-> Append(recentRequests, at) ]

\* You've reached the hourly message limit. ... call 988 ...
limitMessage ==
    << "You've reached the hourly message limit.", "call ", "988" >>

\* I can only process text messages right now. ... call 988 or text "HELP"
\* to 741741.
mediaResponse ==
    << "I can only process text messages right now.", "call ", "988",
       "text HELP to ", "741741" >>

\* Variant of outcomeOf: the message is validated and handed over before the
\* limit is looked at, so only an invalid message is answered with the notice
outcomeOfValidFirst(signed, b, allowed, numMedia) ==
    CASE ~signed -> "forbidden"
      [] Bodies[b].type \in { "null", "undefined" } -> "error"
      [] ~validationOf[b].valid /\ ~allowed -> "limited"
      [] ~validationOf[b].valid -> "invalid"
      [] numMedia > 0 -> "media"
      [] OTHER -> "accepted"

\* What the webhook does with a request: the signature check (production
\* only), message.length (it throws on null and undefined), the rate limit,
\* the validation, the media check, and the hand-over to
\* handleIncomingMessage
outcomeOf(signed, b, allowed, numMedia) ==
    CASE ~signed -> "forbidden"
      [] Bodies[b].type \in { "null", "undefined" } -> "error"
      [] ~allowed -> "limited"
      [] ~validationOf[b].valid -> "invalid"
      [] numMedia > 0 -> "media"
      [] OTHER -> "accepted"

\* res.status(...).send(...)
responseOf(outcome) ==
    CASE outcome = "forbidden" -> [ status |-> 403, body |-> "Forbidden" ]
      [] outcome = "error" -> [ status |-> 500, body |-> "Internal Server Error" ]
      [] OTHER -> [ status |-> 200, body |-> "OK" ]

\* POST /webhook/sms with Body = Bodies[b] and NumMedia = numMedia.  An
\* accepted message is handed to handleIncomingMessage by setImmediate; the
\* steps of that call are not part of this action.
Webhook(t, b, numMedia, signed) ==
    /\ pc[t] = "idle"
    /\ \A u \in Tasks : u < t => pc[u] # "idle"
    /\ LET checked == checkUserRateLimit(userRateLimits, now)
           outcome == outcomeOf(signed, b, checked.allowed, numMedia)
           text    == IF outcome = "limited" THEN limitMessage
                      ELSE mediaResponse
       IN  /\ userRateLimits' = IF outcome \in { "forbidden", "error" }
                                THEN userRateLimits ELSE checked.requests
           /\ IF outcome \in { "limited", "media" }
              THEN \E success \in BOOLEAN :
                       Logged(t, Event("sendSMS", text, "outgoing", "", success))
              ELSE UNCHANGED log
           /\ pc' = [ pc EXCEPT ![t] = IF outcome = "accepted"
                                       THEN "handleIncomingMessage"
                                       ELSE "done" ]
           /\ result' = [ result EXCEPT ![t] = responseOf(outcome) ]
    /\ messageText' = [ messageText EXCEPT ![t] = b ]
    /\ UNCHANGED << phase, riskAssessment, context, aiResponse, stores, tables,
                    now, io, cleanups >>

\* The webhook, one request after the other, with time passing
NextWebhook ==
    \/ Tick
    \/ \E t \in Tasks, b \in DOMAIN Bodies, numMedia \in 0..1,
          signed \in BOOLEAN :
           Webhook(t, b, numMedia, signed)

SpecWebhook == Init /\ [][NextWebhook]_vars

(***************************************************************************)
(* SessionManager.cleanupSessions, called by the timer of server.js        *)
(***************************************************************************)

\* hourInMs = 3600000: one hour; the clock `now` counts hours
hourInMs == 1

\* Variant of cleanupSessions: an entry exactly one hour old is deleted too
cleanupSessionsInclusive(table, at) ==
    LET kept == { p \in DOMAIN table :
                    ~(at - table[p].lastActivity >= hourInMs) }
    IN  [ p \in kept |-> table[p] ]

\* Variant of cleanupSessions: the loop stops after the first deletion
cleanupSessionsOnce(table, at) ==
    LET old  == { p \in DOMAIN table : at - table[p].lastActivity > hourInMs }
        kept == IF old = {} THEN DOMAIN table
                ELSE DOMAIN table \ { CHOOSE p \in old : TRUE }
    IN  [ p \in kept |-> table[p] ]

\* cleanupSessions() at time `at` on the Map `table`: every entry with
\* now - lastActivity > hourInMs is deleted
cleanupSessions(table, at) ==
    LET kept == { p \in DOMAIN table :
                    ~(at - table[p].lastActivity > hourInMs) }
    IN  [ p \in kept |-> table[p] ]

\* this.sessions as a table: the model follows one phone number
sessionsTable ==
    [ p \in { h \in {MapEntry} : sessions # NoSession } |-> sessions ]

\* The timer calls cleanupSessions(): it runs between the awaits of the
\* calls in progress, deletes from the Map only, and returns nothing
CleanupSessions ==
    /\ Len(cleanups) < MaxCleanups
    /\ LET kept    == cleanupSessions(sessionsTable, now)
           removed == DOMAIN sessionsTable \ DOMAIN kept
       IN  /\ heap' = IF MapEntry \in removed
                      THEN Unbind(heap, MapEntry) ELSE heap
           /\ cleanups' = Append(cleanups,
                                 [ at |-> now,
                                   removed |-> Cardinality(removed) ])
    /\ UNCHANGED << pc, phase, locals, result, log, json, redis, tables, now,
                    io, userRateLimits >>

\* SessionManager calls that do not overlap, with time passing and the
\* cleanup timer
NextCleanup ==
    \/ Tick
    \/ CleanupSessions
    \/ \E t \in Tasks :
        \/ CallAlone(t, "call_getContextForAI", 1)
        \/ CallAlone(t, "call_updateMood", 1)
        \/ GetSession(t)
        \/ SaveSessionWrite(t)
        \/ SaveSessionSet(t)
        \/ ContextReads(t)
        \/ UpdateMood(t)

SpecCleanup == Init /\ [][NextCleanup]_vars

(***************************************************************************)
(* assessRisk and generateCrisisResponse on their own, as the tests of     *)
(* safety.js call them: on messages put together from phrases that hold    *)
(* keywords of CRISIS_KEYWORDS.                                            *)
(***************************************************************************)

\* How many phrases a message given to assessRisk on its own has at most
MaxPhrases == 4

\* The phrases the messages are made of, each with the category of
\* CRISIS_KEYWORDS whose keywords it holds and how many of them it holds
\* ('raped' holds 'rape' and 'raped'; 'good day' holds none, and neither do
\* 'k\u0131ll myself', written with the dotless i, and 'a\u00DFaulted',
\* written with the sharp s: toLowerCase leaves both letters as they are)
Phrases ==
    << [ text |-> <<"k","i","l","l"," ","m","y","s","e","l","f">>,
         category |-> "suicide", keywords |-> 1 ],
       [ text |-> <<"w","a","n","t"," ","t","o"," ","d","i","e">>,
         category |-> "suicide", keywords |-> 1 ],
       [ text |-> <<"S","U","I","C","I","D","A","L">>,
         category |-> "suicide", keywords |-> 1 ],
       [ text |-> <<"E","n","d"," ","M","y"," ","L","i","f","e">>,
         category |-> "suicide", keywords |-> 1 ],
       [ text |-> <<"c","u","t","t","i","n","g">>,
         category |-> "selfHarm", keywords |-> 1 ],
       [ text |-> <<"h","u","r","t"," ","m","y","s","e","l","f">>,
         category |-> "selfHarm", keywords |-> 1 ],
       [ text |-> <<"r","a","p","e","d">>,
         category |-> "abuse", keywords |-> 2 ],
       [ text |-> <<"a","d","d","i","c","t","e","d">>,
         category |-> "substance", keywords |-> 1 ],
       [ text |-> <<"g","e","t","t","i","n","g"," ","h","i","g","h">>,
         category |-> "substance", keywords |-> 1 ],
       [ text |-> <<"r","i","g","h","t"," ","n","o","w">>,
         category |-> "immediateRisk", keywords |-> 1 ],
       [ text |-> <<"t","o","n","i","g","h","t">>,
         category |-> "immediateRisk", keywords |-> 1 ],
       [ text |-> <<"a","b","o","u","t"," ","t","o">>,
         category |-> "immediateRisk", keywords |-> 1 ],
       [ text |-> <<"g","o","o","d"," ","d","a","y">>,
         category |-> "none", keywords |-> 0 ],
       [ text |-> <<"k","U+0131","l","l"," ","m","y","s","e","l","f">>,
         category |-> "none", keywords |-> 0 ],
       [ text |-> <<"a","U+00DF","a","u","l","t","e","d">>,
         category |-> "none", keywords |-> 0 ] >>

\* The phrases of a message: at most MaxPhrases of them, none for ''
PhraseSets == { S \in SUBSET (1..Len(Phrases)) : Cardinality(S) <= MaxPhrases }

\* The message made of the phrases S, in their order, joined by ' and '
RECURSIVE textOf(_)
textOf(S) ==
    IF S = {} THEN << >>
    ELSE LET i == CHOOSE j \in S : \A k \in S : j <= k
         IN  Phrases[i].text
             \o (IF S = {i} THEN << >>
                 ELSE << " ", "a", "n", "d", " " >> \o textOf(S \ {i}))

\* const assessment = safety.assessRisk(message); the tests run one after
\* the other and share nothing, so a behaviour follows one of them, as the
\* first task
AssessRisk(t, S) ==
    /\ t = 1
    /\ pc[t] = "idle"
    /\ messageText' = [ messageText EXCEPT ![t] = S ]
    /\ riskAssessment' = [ riskAssessment EXCEPT ![t] = assessRisk(textOf(S)) ]
    /\ pc' = [ pc EXCEPT ![t] = "generateCrisisResponse" ]
    /\ UNCHANGED << phase, context, aiResponse, result, log, stores, users,
                    conversations, crisis_events, now, io, server >>

\* const response = safety.generateCrisisResponse(assessment)
GenerateCrisisResponse(t) ==
    /\ pc[t] = "generateCrisisResponse"
    /\ result' = [ result EXCEPT
                      ![t] = [ response |->
                                   generateCrisisResponse(riskAssessment[t]) ] ]
    /\ pc' = [ pc EXCEPT ![t] = "done" ]
    /\ UNCHANGED << phase, messageText, riskAssessment, context, aiResponse,
                    log, stores, users, conversations, crisis_events, now, io,
                    server >>

\* safety.requiresHumanEscalation(assessment) and safety.requiresReview(
\* assessment) on an assessment written out by the caller, as the tests
\* 'High risk requires escalation' and 'Medium risk requires review' do;
\* no message is assessed, so the task's message has no phrases
RequiresEscalationAndReview(t, level) ==
    /\ t = 1
    /\ pc[t] = "idle"
    /\ LET assessment == [ level |-> level, categories |-> << >> ]
       IN  result' = [ result EXCEPT
                         ![t] = [ assessment |-> assessment,
                                  requiresHumanEscalation |->
                                      requiresHumanEscalation(assessment),
                                  requiresReview |->
                                      requiresReview(assessment) ] ]
    /\ messageText' = [ messageText EXCEPT ![t] = {} ]
    /\ pc' = [ pc EXCEPT ![t] = "done" ]
    /\ UNCHANGED << phase, riskAssessment, context, aiResponse, log, stores,
                    users, conversations, crisis_events, now, io, server >>

\* const assessment1 = safety.assessRisk(<the message in upper case>);
\* const assessment2 = safety.assessRisk(<the message>), as the test 'Case
\* insensitivity' does
CaseInsensitivity(t, S) ==
    /\ t = 1
    /\ pc[t] = "idle"
    /\ messageText' = [ messageText EXCEPT ![t] = S ]
    /\ result' = [ result EXCEPT
                      ![t] = [ assessment1 |->
                                   assessRisk(toUpperCase(textOf(S))) ] ]
    /\ riskAssessment' = [ riskAssessment EXCEPT ![t] = assessRisk(textOf(S)) ]
    /\ pc' = [ pc EXCEPT ![t] = "done" ]
    /\ UNCHANGED << phase, context, aiResponse, log, stores, users,
                    conversations, crisis_events, now, io, server >>

NextSafety ==
    \/ \E t \in Tasks, S \in PhraseSets : AssessRisk(t, S)
    \/ \E t \in Tasks : GenerateCrisisResponse(t)
    \/ \E t \in Tasks, level \in RiskLevel :
          RequiresEscalationAndReview(t, level)
    \/ \E t \in Tasks, S \in PhraseSets : CaseInsensitivity(t, S)

SpecSafety == Init /\ [][NextSafety]_vars

(***************************************************************************)
(* The handler for a user the durable store has never seen, with the       *)
(* durable store reachable: every query is executed, and fails only when   *)
(* it breaks a constraint of the schema.                                   *)
(***************************************************************************)

\* The durable store has no row for the phone number
InitNeverSeen == Init /\ users = NoRow

\* The call task t made in this step returned what it returns when the
\* queries are executed: it failed only if the foreign key did
Executed(t) == log'[t][Len(log'[t])].ok = (users # NoRow)

StoreMessageExecuted(t) == StoreMessage(t) /\ Executed(t)

StoreCrisisEventExecuted(t) == StoreCrisisEvent(t) /\ Executed(t)

NextNeverSeen ==
    \E t \in Tasks :
        \/ \E m \in Messages : Receive(t, m)
        \/ GetSession(t)
        \/ SaveSessionWrite(t)
        \/ SaveSessionSet(t)
        \/ ContextReads(t)
        \/ Route(t)
        \/ StoreCrisisEventExecuted(t)
        \/ StoreMessageExecuted(t)
        \/ SendSMS(t)
        \/ GenerateResponse(t)
        \/ UpdateContext(t)
        \/ UpdateMood(t)
        \/ SetTopic(t)

SpecNeverSeen == InitNeverSeen /\ [][NextNeverSeen]_vars

(***************************************************************************)
(* The CalmText variant: checkCrisis of safetyClassifier.js and            *)
(* handleIncomingMessage of its messageHandler.js                          *)
(***************************************************************************)

\* CRISIS_KEYWORDS of safetyClassifier.js, in the order the loops of
\* checkCrisis go through them
CRISIS_KEYWORDS_safetyClassifier ==
    << [ category |-> "selfHarm",
         keyword |-> <<"k","i","l","l"," ","m","y","s","e","l","f">> ],
       [ category |-> "selfHarm",
         keyword |-> <<"e","n","d"," ","m","y"," ","l","i","f","e">> ],
       [ category |-> "selfHarm",
         keyword |-> <<"s","u","i","c","i","d","e">> ],
       [ category |-> "selfHarm",
         keyword |-> <<"s","u","i","c","i","d","a","l">> ],
       [ category |-> "selfHarm",
         keyword |-> <<"w","a","n","t"," ","t","o"," ","d","i","e">> ],
       [ category |-> "selfHarm",
         keyword |-> <<"b","e","t","t","e","r"," ","o","f","f"," ","d","e","a","d">> ],
       [ category |-> "selfHarm",
         keyword |-> <<"o","v","e","r","d","o","s","e">> ],
       [ category |-> "selfHarm",
         keyword |-> <<"c","u","t"," ","m","y","s","e","l","f">> ],
       [ category |-> "selfHarm",
         keyword |-> <<"h","u","r","t"," ","m","y","s","e","l","f">> ],
       [ category |-> "selfHarm",
         keyword |-> <<"e","n","d"," ","i","t"," ","a","l","l">> ],
       [ category |-> "selfHarm",
         keyword |-> <<"n","o"," ","r","e","a","s","o","n"," ","t","o"," ","l","i","v","e">> ],
       [ category |-> "selfHarm",
         keyword |-> <<"t","a","k","e"," ","m","y"," ","l","i","f","e">> ],
       [ category |-> "selfHarm",
         keyword |-> <<"g","o","i","n","g"," ","t","o"," ","d","i","e">> ],
       [ category |-> "selfHarm",
         keyword |-> <<"p","i","l","l","s">> ],
       [ category |-> "selfHarm",
         keyword |-> <<"j","u","m","p"," ","o","f","f">> ],
       [ category |-> "selfHarm",
         keyword |-> <<"h","a","n","g"," ","m","y","s","e","l","f">> ],
       [ category |-> "selfHarm",
         keyword |-> <<"s","h","o","o","t"," ","m","y","s","e","l","f">> ],
       [ category |-> "harmToOthers",
         keyword |-> <<"k","i","l","l"," ","t","h","e","m">> ],
       [ category |-> "harmToOthers",
         keyword |-> <<"h","u","r","t"," ","s","o","m","e","o","n","e">> ],
       [ category |-> "harmToOthers",
         keyword |-> <<"g","o","i","n","g"," ","t","o"," ","h","u","r","t">> ],
       [ category |-> "harmToOthers",
         keyword |-> <<"v","i","o","l","e","n","t"," ","t","h","o","u","g","h","t","s">> ],
       [ category |-> "harmToOthers",
         keyword |-> <<"m","a","k","e"," ","t","h","e","m"," ","p","a","y">> ],
       [ category |-> "harmToOthers",
         keyword |-> <<"g","o","i","n","g"," ","t","o"," ","a","t","t","a","c","k">> ],
       [ category |-> "harmToOthers",
         keyword |-> <<"b","r","i","n","g"," ","a"," ","g","u","n">> ],
       [ category |-> "harmToOthers",
         keyword |-> <<"b","r","i","n","g"," ","a"," ","w","e","a","p","o","n">> ],
       [ category |-> "harmToOthers",
         keyword |-> <<"h","u","r","t"," ","p","e","o","p","l","e">> ],
       [ category |-> "harmToOthers",
         keyword |-> <<"s","h","o","o","t"," ","u","p">> ],
       [ category |-> "harmToOthers",
         keyword |-> <<"s","t","a","b"," ","t","h","e","m">> ],
       [ category |-> "abuse",
         keyword |-> <<"b","e","i","n","g"," ","h","u","r","t">> ],
       [ category |-> "abuse",
         keyword |-> <<"h","i","t","t","i","n","g"," ","m","e">> ],
       [ category |-> "abuse",
         keyword |-> <<"t","o","u","c","h","e","s"," ","m","e">> ],
       [ category |-> "abuse",
         keyword |-> <<"h","u","r","t","i","n","g"," ","m","e">> ],
       [ category |-> "abuse",
         keyword |-> <<"u","n","s","a","f","e"," ","a","t"," ","h","o","m","e">> ],
       [ category |-> "abuse",
         keyword |-> <<"s","c","a","r","e","d"," ","o","f"," ","t","h","e","m">> ],
       [ category |-> "abuse",
         keyword |-> <<"w","o","n","'","t"," ","l","e","t"," ","m","e"," ","l","e","a","v","e">> ],
       [ category |-> "abuse",
         keyword |-> <<"l","o","c","k","s"," ","m","e"," ","i","n">> ],
       [ category |-> "abuse",
         keyword |-> <<"b","e","a","t","s"," ","m","e">> ],
       [ category |-> "abuse",
         keyword |-> <<"m","o","l","e","s","t","s"," ","m","e">> ],
       [ category |-> "abuse",
         keyword |-> <<"s","e","x","u","a","l"," ","a","b","u","s","e">> ],
       [ category |-> "abuse",
         keyword |-> <<"p","h","y","s","i","c","a","l"," ","a","b","u","s","e">> ],
       [ category |-> "extremeDistress",
         keyword |-> <<"c","a","n","'","t"," ","b","r","e","a","t","h","e">> ],
       [ category |-> "extremeDistress",
         keyword |-> <<"l","o","s","i","n","g"," ","c","o","n","t","r","o","l">> ],
       [ category |-> "extremeDistress",
         keyword |-> <<"h","e","a","r","t"," ","r","a","c","i","n","g">> ],
       [ category |-> "extremeDistress",
         keyword |-> <<"c","h","e","s","t"," ","p","a","i","n">> ],
       [ category |-> "extremeDistress",
         keyword |-> <<"t","h","i","n","k"," ","i","'","m"," ","d","y","i","n","g">> ],
       [ category |-> "extremeDistress",
         keyword |-> <<"h","a","v","i","n","g"," ","a"," ","h","e","a","r","t"," ","a","t","t","a","c","k">> ],
       [ category |-> "extremeDistress",
         keyword |-> <<"s","e","v","e","r","e"," ","p","a","i","n">> ],
       [ category |-> "extremeDistress",
         keyword |-> <<"c","a","n","'","t"," ","s","t","o","p"," ","s","h","a","k","i","n","g">> ] >>

\* const concerningPatterns = [...]
concerningPatterns ==
    { <<"d","o","n","'","t"," ","w","a","n","t"," ","t","o">>,
      <<"c","a","n","'","t"," ","t","a","k","e">>,
      <<"g","i","v","e"," ","u","p">>,
      <<"h","o","p","e","l","e","s","s">>,
      <<"p","o","i","n","t","l","e","s","s">>,
      <<"n","o","t","h","i","n","g"," ","m","a","t","t","e","r","s">>,
      <<"e","v","e","r","y","o","n","e"," ","w","o","u","l","d"," ","b","e">>,
      <<"n","o"," ","p","o","i","n","t">>,
      <<"b","e","t","t","e","r"," ","o","f","f">>,
      <<"c","a","n","'","t"," ","g","o"," ","o","n">>,
      <<"t","o","o"," ","h","a","r","d">>,
      <<"t","o","o"," ","m","u","c","h">> }

\* The inbound texts of the CalmText handler: a self-harm keyword in upper
\* case, an abuse keyword, a concerning pattern in a text of more than 20
\* characters without and with 'end', a concerning pattern in a short
\* text, a plain text, the empty and a blank text
CalmTexts ==
    << <<"I"," ","w","a","n","t"," ","t","o"," ","K","I","L","L"," ","M","Y","S","E","L","F">>,
       <<"h","e"," ","i","s"," ","h","i","t","t","i","n","g"," ","m","e">>,
       <<"e","v","e","r","y","t","h","i","n","g"," ","f","e","e","l","s"," ","h","o","p","e","l","e","s","s"," ","a","n","d"," ","p","o","i","n","t","l","e","s","s">>,
       <<"i"," ","g","i","v","e"," ","u","p",","," ","i","t"," ","w","i","l","l"," ","n","e","v","e","r"," ","e","n","d">>,
       <<"h","o","p","e","l","e","s","s">>,
       <<"h","e","l","l","o",","," ","h","o","w"," ","a","r","e"," ","y","o","u","?">>,
       <<>>,
       <<" "," ">> >>

\* What analyzeWithAI can give: CRISIS, SAFE, or a thrown error
Analyses == { "CRISIS", "SAFE", "throws" }

\* checkCrisis(message), with `analysis` what analyzeWithAI gives when it is
\* asked: the first keyword found reports a crisis; otherwise a concerning
\* pattern in a message of more than 20 characters is analysed, and when the
\* analysis throws, 'die', 'hurt' or 'end' in the message reports one
checkCrisis(message, analysis) ==
    LET messageLower == toLowerCase(message)
        matches == { i \in DOMAIN CRISIS_KEYWORDS_safetyClassifier :
                       includes(messageLower,
                                CRISIS_KEYWORDS_safetyClassifier[i].keyword) }
        first == CHOOSE i \in matches : \A j \in matches : i <= j
        hasConcerningPattern ==
            \E pattern \in concerningPatterns : includes(messageLower, pattern)
    IN  IF matches # {}
        THEN [ isCrisis |-> TRUE,
               reason |-> << "keyword_match",
                             CRISIS_KEYWORDS_safetyClassifier[first].category >> ]
        ELSE IF hasConcerningPattern /\ Len(message) > 20
        THEN IF analysis = "CRISIS"
             THEN [ isCrisis |-> TRUE, reason |-> << "ai_analysis" >> ]
             ELSE IF /\ analysis = "throws"
                     /\ \/ includes(messageLower, << "d", "i", "e" >>)
                        \/ includes(messageLower, << "h", "u", "r", "t" >>)
                        \/ includes(messageLower, << "e", "n", "d" >>)
             THEN [ isCrisis |-> TRUE,
                    reason |-> << "safety_check_failure_failsafe" >> ]
             ELSE [ isCrisis |-> FALSE, reason |-> << >> ]
        ELSE [ isCrisis |-> FALSE, reason |-> << >> ]

\* const CRISIS_MESSAGE = `I'm really glad you reached out. ... contact the
\* 988 Lifeline or text 'HOME' to 741741 ...`
CRISIS_MESSAGE ==
    << "I'm really glad you reached out.", "contact the ", "988",
       " Lifeline or text 'HOME' to ", "741741",
       "please reach out to a trusted adult near you." >>

\* You've reached the message limit for now. ... call 988 ...
limitNotice ==
    << "You've reached the message limit for now.", "call ", "988" >>

\* I'm having trouble right now. ... please call 988.
troubleMessage ==
    << "I'm having trouble right now.", "call ", "988" >>

\* I'm getting a lot of messages right now. ... please call 988.
busyMessage ==
    << "I'm getting a lot of messages right now.", "call ", "988" >>

\* I'm here to listen. What's on your mind?
listenMessage == << "I'm here to listen. What's on your mind?" >>

\* generateAIResponse(userMessage, context) of the CalmText aiEngine.js:
\* the reply of the model, or the fallback of its catch; context.slice
\* throws inside the try when the context is null
generateAIResponse(contextGot, outcome) ==
    IF contextGot = "null" THEN listenMessage
    ELSE CASE outcome = "generated" -> generatedText
           [] outcome = "rate_limit_error" -> busyMessage
           [] OTHER -> listenMessage

\* The handler's position moves to `to`, with its locals as they are
CalmGoto(t, to) ==
    /\ pc' = [ pc EXCEPT ![t] = to ]
    /\ UNCHANGED << phase, riskAssessment, context, stores, tables, now, io,
                    server >>

\* handleIncomingMessage(phoneNumber, messageBody, messageId) is called: the
\* input validation.  An empty or blank message and a missing phone number
\* end the call
CalmReceive(t, m, hasPhone) ==
    /\ t = 1
    /\ pc[t] = "idle"
    /\ messageText' = [ messageText EXCEPT ![t] = m ]
    /\ CalmGoto(t, IF Len(trim(CalmTexts[m])) = 0 \/ ~hasPhone
                   THEN "done" ELSE "checkRateLimit")
    /\ UNCHANGED << aiResponse, result, log >>

\* const rateLimitResult = await checkRateLimit(phoneNumber)
CheckRateLimit(t, outcome) ==
    /\ pc[t] = "checkRateLimit"
    /\ CalmGoto(t, CASE outcome = "allowed" -> "checkCrisis"
                     [] outcome = "limited" -> "limit_sendSMS"
                     [] OTHER -> "catch_sendSMS")
    /\ UNCHANGED << messageText, aiResponse, result, log >>

\* await sendSMS(phoneNumber, "You've reached the message limit ..."); return
LimitSendSMS(t, success) ==
    /\ pc[t] = "limit_sendSMS"
    /\ Logged(t, Event("sendSMS", limitNotice, "outgoing", "", success))
    /\ CalmGoto(t, "done")
    /\ UNCHANGED << messageText, aiResponse, result >>

\* Variant of crisisBranch: only a keyword match takes the crisis branch
crisisBranchKeywordOnly(crisisDetected) ==
    IF crisisDetected.isCrisis /\ crisisDetected.reason[1] = "keyword_match"
    THEN "crisis_sendSMS" ELSE "getContext"

\* if (crisisDetected.isCrisis) { ... return; }
crisisBranch(crisisDetected) ==
    IF crisisDetected.isCrisis THEN "crisis_sendSMS" ELSE "getContext"

\* const crisisDetected = await checkCrisis(messageBody), and the branch
CheckCrisis(t, analysis) ==
    /\ pc[t] = "checkCrisis"
    /\ LET crisisDetected == checkCrisis(CalmTexts[messageText[t]], analysis)
       IN  /\ result' = [ result EXCEPT ![t] = crisisDetected ]
           /\ CalmGoto(t, crisisBranch(crisisDetected))
    /\ UNCHANGED << messageText, aiResponse, log >>

\* await sendSMS(phoneNumber, CRISIS_MESSAGE): sendSMS returns its outcome
\* and never throws
CrisisSendSMS(t, success) ==
    /\ pc[t] = "crisis_sendSMS"
    /\ Logged(t, Event("sendSMS", CRISIS_MESSAGE, "outgoing", "", success))
    /\ CalmGoto(t, "crisis_saveContext")
    /\ UNCHANGED << messageText, aiResponse, result >>

\* await saveContext(phoneNumber, { user, assistant: CRISIS_MESSAGE,
\* timestamp, crisis: true }); return.  A saveContext that throws is caught
\* by the handler's catch
CrisisSaveContext(t, returned) ==
    /\ pc[t] = "crisis_saveContext"
    /\ Logged(t, [ ev |-> "saveContext", user |-> messageText[t],
                   body |-> CRISIS_MESSAGE, crisis |-> TRUE,
                   ok |-> returned ])
    /\ CalmGoto(t, IF returned THEN "done" ELSE "catch_sendSMS")
    /\ UNCHANGED << messageText, aiResponse, result >>

\* const context = await getContext(phoneNumber): an array, null, or a
\* thrown error
GetContext(t, contextGot) ==
    /\ pc[t] = "getContext"
    /\ Logged(t, [ ev |-> "getContext", body |-> << contextGot >>,
                   ok |-> contextGot # "throws" ])
    /\ CalmGoto(t, IF contextGot = "throws" THEN "catch_sendSMS"
                   ELSE "generateAIResponse")
    /\ UNCHANGED << messageText, aiResponse, result >>

\* const aiResponse = await generateAIResponse(messageBody, context)
GenerateAIResponse(t, outcome) ==
    /\ pc[t] = "generateAIResponse"
    /\ LET contextGot == log[t][Len(log[t])].body[1]
           reply      == generateAIResponse(contextGot, outcome)
       IN  /\ aiResponse' = [ aiResponse EXCEPT
                                ![t] = [ success |-> TRUE, message |-> reply,
                                         context |-> contextGot ] ]
           /\ Logged(t, [ ev |-> "generateAIResponse", body |-> reply,
                          ok |-> TRUE ])
    /\ CalmGoto(t, "saveContext")
    /\ UNCHANGED << messageText, result >>

\* await saveContext(phoneNumber, { user, assistant: aiResponse, timestamp })
SaveContext(t, returned) ==
    /\ pc[t] = "saveContext"
    /\ Logged(t, [ ev |-> "saveContext", user |-> messageText[t],
                   body |-> aiResponse[t].message, crisis |-> FALSE,
                   ok |-> returned ])
    /\ CalmGoto(t, IF returned THEN "sendSMS" ELSE "catch_sendSMS")
    /\ UNCHANGED << messageText, aiResponse, result >>

\* await sendSMS(phoneNumber, aiResponse), then logger.info(..., contextSize:
\* context.length), which throws when the context is null
ReplySendSMS(t, success) ==
    /\ pc[t] = "sendSMS"
    /\ Logged(t, Event("sendSMS", aiResponse[t].message, "outgoing", "",
                       success))
    /\ CalmGoto(t, IF aiResponse[t].context = "null" THEN "catch_sendSMS"
                   ELSE "done")
    /\ UNCHANGED << messageText, aiResponse, result >>

\* catch (error): await sendSMS(phoneNumber, "I'm having trouble right now
\* ...")
CatchSendSMS(t, success) ==
    /\ pc[t] = "catch_sendSMS"
    /\ Logged(t, Event("sendSMS", troubleMessage, "outgoing", "", success))
    /\ CalmGoto(t, "done")
    /\ UNCHANGED << messageText, aiResponse, result >>

\* One call of the CalmText handler for each text, with every outcome of the
\* calls it awaits
NextCalmText ==
    \E t \in Tasks :
        \/ \E m \in DOMAIN CalmTexts, hasPhone \in BOOLEAN :
               CalmReceive(t, m, hasPhone)
        \/ \E outcome \in { "allowed", "limited", "throws" } :
               CheckRateLimit(t, outcome)
        \/ \E success \in BOOLEAN : LimitSendSMS(t, success)
        \/ \E analysis \in Analyses : CheckCrisis(t, analysis)
        \/ \E success \in BOOLEAN : CrisisSendSMS(t, success)
        \/ \E returned \in BOOLEAN : CrisisSaveContext(t, returned)
        \/ \E contextGot \in { "array", "null", "throws" } :
               GetContext(t, contextGot)
        \/ \E outcome \in { "generated", "rate_limit_error", "error" } :
               GenerateAIResponse(t, outcome)
        \/ \E returned \in BOOLEAN : SaveContext(t, returned)
        \/ \E success \in BOOLEAN : ReplySendSMS(t, success)
        \/ \E success \in BOOLEAN : CatchSendSMS(t, success)

SpecCalmText == Init /\ [][NextCalmText]_vars

\* memory.storeMessage called on its own, one call after the other
NextMemory ==
    \E direction \in { "incoming", "outgoing" }, riskLevel \in RiskLevel,
       failAt \in 0..3 :
        StoreCall(direction, riskLevel, failAt)

SpecMemory == Init /\ [][NextMemory]_vars

(***************************************************************************)
(* Properties                                                              *)
(***************************************************************************)

\* The entries of log[t] for the call `ev`
eventsOf(t, ev) == SelectSeq(log[t], LAMBDA e : e.ev = ev)

\* The handler calls that have returned
Returned == { t \in Tasks : pc[t] = "done" /\ messageText[t] \in Messages }

KillMyself == CHOOSE m \in Messages : Inbound[m].text = TextKillMyself

\* Task t's call is the only call made so far
OnlyCall(t) == \A u \in Tasks \ {t} : pc[u] = "idle"

\* C1 (as the code has it): handling "I want to kill myself" end to end,
\* assessRisk puts "suicide" in categories and the level is "medium" (score
\* 10); the handler takes the normal branch: it stores no CrisisEvent, sends
\* exactly one reply, which is the generated text or, when generation failed,
\* the fallback text that names 988, and returns riskLevel "medium"; when it
\* is the first message handled, no CrisisEvent exists afterwards and the
\* session's flags.inCrisis is false in the Map and in the cache.
C1_KillMyselfIsMedium ==
    \A t \in Returned :
        messageText[t] = KillMyself =>
            /\ hasCategory(riskAssessment[t].categories, "suicide")
            /\ riskAssessment[t].level = "medium"
            /\ eventsOf(t, "storeCrisisEvent") = << >>
            /\ Len(eventsOf(t, "sendSMS")) = 1
            /\ eventsOf(t, "sendSMS")[1].body = aiResponse[t].message
            /\ \/ aiResponse[t].success /\ aiResponse[t].message = generatedText
               \/ /\ ~aiResponse[t].success
                  /\ containsNumber(aiResponse[t].message, "988")
            /\ result[t] = [ success |-> TRUE,
                             response |-> aiResponse[t].message,
                             riskLevel |-> "medium",
                             type |-> "conversation" ]
            /\ OnlyCall(t) =>
                   /\ crisis_events = << >>
                   /\ sessions # NoSession /\ ~sessions.flags.inCrisis
                   /\ redis # NoSession => ~redis.flags.inCrisis

\* C1 witness: the message was handled to the end and the reply was sent
C1_Witness ==
    \E t \in Returned :
        /\ messageText[t] = KillMyself
        /\ OnlyCall(t)
        /\ result[t].success
        /\ eventsOf(t, "sendSMS")[1].ok
        /\ aiResponse[t].success

\* C1 as stated: the level reaches "critical", a CrisisEvent is persisted, the
\* reply contains "988" and the session ends with flags.inCrisis = true
C1_AsStated ==
    \A t \in Returned :
        messageText[t] = KillMyself =>
            /\ hasCategory(riskAssessment[t].categories, "suicide")
            /\ riskAssessment[t].level = "critical"
            /\ eventsOf(t, "storeCrisisEvent") # << >>
            /\ crisis_events # << >>
            /\ \E i \in 1..Len(log[t]) :
                   /\ log[t][i].ev = "sendSMS"
                   /\ containsNumber(log[t][i].body, "988")
            /\ sessions # NoSession /\ sessions.flags.inCrisis

\* The last entry of log[1] in the next state is a storeMessage call that
\* returned true in this step
StoredNow ==
    /\ Len(log'[1]) = Len(log[1]) + 1
    /\ log'[1][Len(log'[1])].ev = "storeMessage"
    /\ log'[1][Len(log'[1])].ok

\* C2 as stated: across successful storeMessage calls for one user, the
\* stored users.risk_level never moves to a level of lower rank in the order
\* none < low < medium < high < critical
C2_HighWaterMark ==
    [][ StoredNow =>
          levels[users'.risk_level] >= levels[users.risk_level] ]_vars

\* The handler calls that went through assessRisk
Assessed == { t \in Tasks : riskAssessment[t] # NoAssessment }

\* The positions of log[t] that hold a sendSMS of the crisis response
crisisSends(t) ==
    { i \in 1..Len(log[t]) :
        /\ log[t][i].ev = "sendSMS"
        /\ log[t][i].body = generateCrisisResponse(riskAssessment[t]) }

\* The positions of log[t] that hold a sendSMS of any other text
otherSends(t) ==
    { i \in 1..Len(log[t]) :
        /\ log[t][i].ev = "sendSMS"
        /\ log[t][i].body # generateCrisisResponse(riskAssessment[t]) }

\* The positions of log[t] that hold a generateResponse call
generations(t) == { i \in 1..Len(log[t]) : log[t][i].ev = "generateResponse" }

\* C3: in the crisis branch the crisis response is sent before the follow-up
\* generation starts; whatever the outcome of the generation the crisis
\* response has been sent exactly once; the follow-up is sent only when the
\* generation succeeded, once, and after the crisis response.
C3_CrisisSendFirst ==
    \A t \in Assessed :
        requiresHumanEscalation(riskAssessment[t]) =>
            /\ Cardinality(crisisSends(t)) <= 1
            /\ Cardinality(otherSends(t)) <= 1
            /\ \A g \in generations(t) : \E c \in crisisSends(t) : c < g
            /\ \A f \in otherSends(t) :
                   /\ aiResponse[t].success
                   /\ log[t][f].body = aiResponse[t].message
                   /\ \E c \in crisisSends(t) : c < f
                   /\ \E g \in generations(t) : g < f
            /\ pc[t] = "done" =>
                   /\ Cardinality(crisisSends(t)) = 1
                   /\ Cardinality(otherSends(t)) = 1 <=> aiResponse[t].success

\* C3 witness: a crisis message was handled to the end, the follow-up
\* generation failed, and the crisis response is in the record of sends
C3_Witness ==
    \E t \in Assessed :
        /\ pc[t] = "done"
        /\ riskAssessment[t].level = "critical"
        /\ ~aiResponse[t].success
        /\ Cardinality(crisisSends(t)) = 1
        /\ otherSends(t) = {}

\* The session the Map holds in the next state
sessionsNext == heap'.val[MapEntry]

\* C4 as stated: over any interleaving of calls the stored session riskLevel,
\* in the Map and in the cache, never goes down in rank
C4_StoredNeverGoesDown ==
    [][ /\ (sessions # NoSession /\ sessionsNext # NoSession)
            => levels[sessionsNext.riskLevel] >= levels[sessions.riskLevel]
        /\ (redis # NoSession /\ redis' # NoSession)
            => levels[redis'.riskLevel] >= levels[redis.riskLevel] ]_vars

\* C4 (as the code has it): within one getSession -> mutate -> saveSession
\* cycle the riskLevel of the session the call holds never goes down
\* (updateContext raises it or leaves it, the other mutators leave it), the
\* text handed to the cache is that session, and the cache only ever takes
\* such a text; so no call saves a level below the one it read, while a
\* stored level can still be replaced by a lower one that another call read
\* earlier or read from an older cache entry.
C4_NoCallLowersWhatItRead ==
    [][ \A t \in Tasks :
          /\ (session(t) # NoSession /\ heap'.val[Local(t)] # NoSession)
              => levels[heap'.val[Local(t)].riskLevel]
                   >= levels[session(t).riskLevel]
          /\ json'[t] # json[t] => json'[t] = heap'.val[Local(t)]
          /\ (redis' # redis /\ phase'[t] # phase[t]) => redis' = json[t] ]_vars

\* C4 witness: two calls overlap; one has raised its session to "high" and is
\* saving it, the other still holds a copy at "none" that it is about to save
C4_Witness ==
    \E t, u \in Tasks :
        /\ t # u
        /\ callAt(pc[t]) = "updateContext"
        /\ phase[t] = "save_set"
        /\ session(t).riskLevel = "high"
        /\ callAt(pc[u]) = "updateMood"
        /\ phase[u] = "save_write"
        /\ session(u).riskLevel = "none"

\* The level of the message task t was called with
levelOf(t) == riskAssessment[t].level

\* The higher of two levels by integer rank
higher(level1, level2) ==
    IF levels[level1] >= levels[level2] THEN level1 ELSE level2

\* C5 as stated: after two updateContext calls that do not overlap, on a
\* session that stays stored, the session riskLevel is the higher by rank of
\* the two levels ("low" then "high" leaves "high", "high" then "low" leaves
\* "high")
C5_HigherOfTheTwo ==
    (\A t \in Tasks : result[t] = [ returned |-> "updateContext" ])
        => /\ sessions # NoSession
           /\ sessions.riskLevel = higher(levelOf(1), levelOf(2))

\* The fallback texts of the handler
FallbackTexts ==
    { errorMessage, getFallbackResponse(TRUE), getFallbackResponse(FALSE) }

\* The number of sends the branch taken makes, whatever their outcomes
sendsOfBranch(t) ==
    IF ~result[t].success THEN 1
    ELSE IF result[t].type = "command" THEN 1
    ELSE IF requiresHumanEscalation(riskAssessment[t]) /\ aiResponse[t].success
         THEN 2
         ELSE 1

Normal ==
    { t \in Assessed : riskAssessment[t].level \in { "none", "low", "medium" } }

\* C8: in the normal branch exactly one send is attempted per message: it
\* carries the generated text when generation succeeded and the fixed
\* fallback text when it failed; no message completes without a send.
C8_NormalBranchSendsOnce ==
    \A t \in Normal :
        /\ Len(eventsOf(t, "sendSMS")) <= 1
        /\ pc[t] = "done" =>
               /\ Len(eventsOf(t, "sendSMS")) = 1
               /\ eventsOf(t, "sendSMS")[1].body = aiResponse[t].message
               /\ IF aiResponse[t].success
                  THEN aiResponse[t].message = generatedText
                  ELSE aiResponse[t].message \in
                           { getFallbackResponse(TRUE), getFallbackResponse(FALSE) }

\* C8 witness: a normal-branch message was handled to the end, generation
\* failed and the fallback text was sent
C8_Witness ==
    \E t \in Normal :
        /\ pc[t] = "done"
        /\ ~aiResponse[t].success
        /\ eventsOf(t, "sendSMS")[1].body = getFallbackResponse(FALSE)
        /\ eventsOf(t, "sendSMS")[1].ok

\* C9: for a message that is not a command, whatever cache reads and writes,
\* message stores and crisis-event stores fail, the handler never enters its
\* catch block and never stops halfway, and when it returns it returns
\* success and has attempted the send of the reply it returns.
C9_StorageNeverBlocks ==
    \A t \in Assessed :
        /\ pc[t] # "catch_sendSMS"
        /\ pc[t] # "done" => ENABLED Next
        /\ pc[t] = "done" =>
               /\ result[t].success
               /\ \E i \in 1..Len(log[t]) :
                      /\ log[t][i].ev = "sendSMS"
                      /\ log[t][i].body = result[t].response

\* C9 witness: a crisis message was handled to the end although the user row
\* exists and every store of a message and of the crisis event failed, and
\* every write to the cache failed
C9_Witness ==
    \E t \in Assessed :
        /\ pc[t] = "done"
        /\ requiresHumanEscalation(riskAssessment[t])
        /\ users # NoRow
        /\ \A i \in 1..Len(log[t]) :
               log[t][i].ev \in { "storeMessage", "storeCrisisEvent" }
                   => ~log[t][i].ok
        /\ redis = NoSession
        /\ result[t].success

\* The command grammar: after trim and lower-casing the text starts with "/"
\* or equals help, resources, crisis or stop
MatchesGrammar(text) ==
    LET lowered == toLowerCase(trim(text))
    IN  \/ (lowered # << >> /\ Head(lowered) = "/")
        \/ lowered \in { <<"h","e","l","p">>,
                         <<"r","e","s","o","u","r","c","e","s">>,
                         <<"c","r","i","s","i","s">>,
                         <<"s","t","o","p">> }

\* The inbound strings that match the command grammar
GrammarMessages == { m \in Strings : MatchesGrammar(Inbound[m].text) }

\* The handler calls whose message matches the command grammar
CommandCalls == { t \in Tasks : messageText[t] \in GrammarMessages }

\* C10: for a message that matches the command grammar, also one whose text
\* holds a crisis keyword, the handler runs no risk assessment, stores no
\* CrisisEvent and does not call updateContext; it calls storeMessage for the
\* inbound text and for the reply, both with level none, sends the reply once
\* and returns; it never stops halfway.
C10_CommandsSkipAssessment ==
    \A t \in CommandCalls :
        LET text   == Inbound[messageText[t]].text
            stored == eventsOf(t, "storeMessage")
            sends  == eventsOf(t, "sendSMS")
        IN  /\ riskAssessment[t] = NoAssessment
            /\ eventsOf(t, "assessRisk") = << >>
            /\ eventsOf(t, "storeCrisisEvent") = << >>
            /\ eventsOf(t, "updateContext") = << >>
            /\ OnlyCall(t) => crisis_events = << >>
            /\ Len(sends) <= 1
            /\ pc[t] # "done" => ENABLED Next
            /\ pc[t] = "done" =>
                   /\ Len(stored) = 2
                   /\ stored[1].direction = "incoming"
                   /\ stored[1].body = text
                   /\ stored[2].direction = "outgoing"
                   /\ stored[2].body = commandResponseOf[messageText[t]]
                   /\ \A i \in 1..2 : stored[i].riskLevel = "none"
                   /\ Len(sends) = 1
                   /\ sends[1].body = commandResponseOf[messageText[t]]
                   /\ result[t] = [ success |-> TRUE,
                                    response |-> commandResponseOf[messageText[t]],
                                    type |-> "command" ]

\* C10 witness: the command "/kill myself", whose text holds a suicide
\* keyword, was handled to the end with both stores written
C10_Witness ==
    \E t \in CommandCalls :
        /\ pc[t] = "done"
        /\ Inbound[messageText[t]].text = TextSlashKill
        /\ includes(toLowerCase(TextSlashKill), CRISIS_KEYWORDS.suicide[1])
        /\ Len(conversations) = 2
        /\ result[t].type = "command"

\* The positions of log[t] that hold the call `ev`
positionsOf(t, ev) == { i \in 1..Len(log[t]) : log[t][i].ev = ev }

\* C11: the store of a crisis event is attempted at most once per handled
\* message, only for a message assessed high or critical, right after the
\* assessment and before any store of a message, send or generation; a
\* message assessed high or critical that was handled to the end has exactly
\* one attempt, whether the INSERT succeeded or not, and went through the
\* crisis branch; a message assessed none, low or medium, a command and a
\* message that threw have none.
C11_CrisisEventOncePerCrisis ==
    \A t \in Tasks :
        LET attempts == positionsOf(t, "storeCrisisEvent")
            escalated == /\ t \in Assessed
                         /\ riskAssessment[t].level \in { "high", "critical" }
        IN  /\ Cardinality(attempts) <= 1
            /\ attempts # {} => escalated
            /\ \A i \in attempts :
                   /\ log[t][i - 1].ev = "assessRisk"
                   /\ log[t][i].riskLevel = riskAssessment[t].level
            /\ (escalated /\ pc[t] # "storeCrisisEvent")
                   => Cardinality(attempts) = 1
            /\ (t \in Assessed /\ crisisSends(t) # {}) <=>
                   (escalated /\ positionsOf(t, "sendSMS") # {})
            /\ (t \in Returned /\ ~escalated) => attempts = {}

\* C11 witness: a message assessed high was handled to the end, and the one
\* attempt to store its crisis event failed
C11_Witness ==
    \E t \in Returned :
        /\ riskAssessment[t] # NoAssessment
        /\ riskAssessment[t].level = "high"
        /\ Len(eventsOf(t, "storeCrisisEvent")) = 1
        /\ ~eventsOf(t, "storeCrisisEvent")[1].ok
        /\ crisis_events = << >>

GoodDay == CHOOSE m \in Messages : Inbound[m].text = TextGoodDay

\* C12 as stated: handling "I had a good day today" (level none) for a user
\* with no session yet and no other message in flight stores no crisis
\* event, sends the reply that generateResponse returned, once, and leaves
\* the stored session with messageCount 1, one higher than the 0 of the
\* session created for the call, when updateContext, updateMood and setTopic
\* have all completed
C12_CountsOneMessage ==
    \A t \in Returned :
        (messageText[t] = GoodDay /\ OnlyCall(t)) =>
            /\ riskAssessment[t].level = "none"
            /\ eventsOf(t, "storeCrisisEvent") = << >>
            /\ crisis_events = << >>
            /\ Len(eventsOf(t, "sendSMS")) = 1
            /\ eventsOf(t, "sendSMS")[1].body = aiResponse[t].message
            /\ Len(eventsOf(t, "updateContext")) = 1
            /\ sessions # NoSession
            /\ sessions.messageCount = 1

\* The calls of updateContext that have returned
ContextCalls == { t \in Tasks : result[t] = [ returned |-> "updateContext" ] }

\* The session after n updateContext calls on a new session, each applied to
\* what the one before it saved; exchange k has user message k
RECURSIVE sessionAfter(_)
sessionAfter(n) ==
    IF n = 0 THEN createNewSession(0)
    ELSE updateContextBody(sessionAfter(n - 1), n, generatedText,
                           assessmentOf[1], 0)

\* The push and slice of updateContext alone: applied 0 to 15 times in a row
\* to the session the call before left, it keeps the last min(n, 10)
\* exchanges in arrival order (after 15, exchanges 6 to 15)
SliceKeepsLastTen ==
    \A n \in 0..15 :
        LET kept == sessionAfter(n).conversationContext
            size == IF n < 10 THEN n ELSE 10
        IN  /\ Len(kept) = size
            /\ \A i \in 1..size : kept[i].user = n - size + i

\* C13 as stated: after n updateContext calls for one identifier that do not
\* overlap, with no other call in between, conversationContext holds exactly
\* the min(n, 10) most recent exchanges in arrival order
C13_HoldsMostRecent ==
    (\A t \in Tasks : pc[t] = "idle" \/ t \in ContextCalls) =>
        LET n == Cardinality(ContextCalls)
        IN  /\ SliceKeepsLastTen
            /\ n > 0 =>
                   /\ sessions # NoSession
                   /\ Len(sessions.conversationContext) = n
                   /\ \A t \in ContextCalls :
                          /\ sessions.conversationContext[t].user = messageText[t]
                          /\ sessions.conversationContext[t].riskLevel = levelOf(t)

\* C14 as stated: saveSession returns true exactly when the cache write
\* (memory.updateSession) succeeded and false when it failed or the cache
\* client was not available
C14_ReturnsWriteSuccess ==
    \A t \in Tasks :
        \A i \in 1..Len(io[t]) :
            io[t][i].ev = "saveSession" =>
                /\ io[t][i - 1].ev = "updateSession"
                /\ io[t][i].ok = io[t][i - 1].ok

\* Task t's saveSession returns in this step
SaveReturns(t) ==
    /\ phase[t] \in { "new_set", "save_set" }
    /\ phase'[t] # phase[t]

\* C15: every saveSession(id, s) call returns to its caller, whether the
\* cache write succeeded or failed, and when it returns the Map holds s for
\* id: the very object when the caller goes on using it (inside getSession,
\* where the lastActivity stamp that follows is seen through the Map), the
\* content of s in every case.
C15_FallbackAlwaysSet ==
    [][ \A t \in Tasks :
          SaveReturns(t) =>
              /\ Len(io'[t]) = Len(io[t]) + 1
              /\ io'[t][Len(io'[t])].ev = "saveSession"
              /\ io[t][Len(io[t])].ev = "updateSession"
              /\ pc'[t] # "catch_sendSMS"
              /\ IF phase[t] = "new_set"
                 THEN /\ MapEntry \in heap'.same[Local(t)]
                      /\ sessionsNext = stamped(session(t), now)
                 ELSE sessionsNext = session(t) ]_vars

\* C15 witness: a saveSession whose cache write failed has returned; the
\* cache holds nothing and the Map holds the session
C15_Witness ==
    \E t \in Tasks :
        /\ io[t] # << >>
        /\ io[t][Len(io[t])].ev = "saveSession"
        /\ ~io[t][Len(io[t]) - 1].ok
        /\ redis = NoSession
        /\ sessions # NoSession
        /\ sessions.messageCount = 1

\* The calls whose getSession has returned and whose caller has not yet
\* changed the session: session(t) is what getSession returned
GotSession == { t \in Tasks : phase[t] \in { "mutate", "reads" } }

\* What memory.getSession returned to task t's getSession, and where the
\* session then came from
readOf(t) == io[t][1]

\* The fields a session object has
SessionFields ==
    { "conversationContext", "currentTopic", "mood", "riskLevel",
      "lastActivity", "messageCount", "isFirstTime", "preferences", "flags",
      "checkInReason" }

\* A default session
IsDefault(s) ==
    /\ s.isFirstTime
    /\ s.riskLevel = "none"
    /\ s.messageCount = 0
    /\ s.conversationContext = << >>
    /\ s.flags = [ needsCheckIn |-> FALSE, inCrisis |-> FALSE,
                   hasSeenResources |-> FALSE ]

\* C16 (as the code has it): getSession never throws and always returns a
\* well-formed session.  It returns a default session (isFirstTime true,
\* riskLevel none, messageCount 0, empty conversationContext) exactly when
\* neither the cache gave a session nor the Map holds one, whether the cache
\* read missed or failed and whether the write of the new session failed;
\* when the cache read fails and the Map holds a session it returns the
\* Map's session as it is, not a default one.
C16_NeverThrowsDefaultOnTotalMiss ==
    \A t \in Tasks :
        /\ phase[t] \in { "get", "new_write", "new_set" } =>
               ENABLED (GetSession(t) \/ SaveSessionWrite(t) \/ SaveSessionSet(t))
        /\ t \in GotSession =>
               /\ session(t) # NoSession
               /\ DOMAIN session(t) = SessionFields
               /\ session(t).lastActivity <= now
               /\ readOf(t).source = "new" =>
                      /\ readOf(t).outcome \in { "miss", "error" }
                      /\ IsDefault(session(t))
                      /\ MapEntry \in heap.same[Local(t)]
               /\ readOf(t).source = "table" =>
                      /\ readOf(t).outcome \in { "miss", "error" }
                      /\ MapEntry \in heap.same[Local(t)]
               /\ readOf(t).source = "cache" =>
                      /\ readOf(t).outcome = "hit"
                      /\ stamped(session(t), 0) = stamped(redis, 0)

\* C16 witness: for a never-seen identifier the cache read failed and the
\* write of the new session failed, and getSession returned the default
\* session
C16_Witness ==
    \E t \in GotSession :
        /\ readOf(t).outcome = "error"
        /\ readOf(t).source = "new"
        /\ ~lastOf(t, "updateSession").ok
        /\ redis = NoSession
        /\ IsDefault(session(t))

\* C16 as stated: for a never-seen identifier and on any internal error (a
\* failed cache read, a failed cache write) getSession returns a default
\* session
C16_DefaultOnAnyError ==
    \A t \in GotSession :
        (readOf(t).source = "new" \/ readOf(t).outcome = "error")
            => IsDefault(session(t))

\* memory.getSession returns to task t's getSession in this step
ReadReturns(t) == phase[t] = "get" /\ phase'[t] # "get"

\* Task t's getSession returns in this step
GetReturns(t) ==
    /\ phase[t] \in { "get", "new_set" }
    /\ phase'[t] \in { "mutate", "reads" }

\* C17: getSession asks the cache first and takes what it gives; it takes
\* the Map's session only when the cache gave nothing (a miss or a failed
\* read), and creates a session only when the Map has none either.  A session
\* from the cache or the Map is returned without any write.  A created
\* session is handed to the cache and put in the Map before getSession
\* returns: the Map holds the returned object, and the cache holds its
\* content (lastActivity aside) when that write succeeded.
C17_CacheThenTableThenNew ==
    [][ \A t \in Tasks :
          /\ ReadReturns(t) =>
                 LET read == io'[t][1]
                 IN  /\ read.outcome = "hit" => redis # NoSession
                     /\ read.source = "cache" <=> read.outcome = "hit"
                     /\ read.source = "table" <=>
                            (read.outcome # "hit" /\ sessions # NoSession)
                     /\ read.source = "new" <=>
                            (read.outcome # "hit" /\ sessions = NoSession)
                     /\ read.source = "new" <=> phase'[t] = "new_write"
                     /\ read.source = "new" => IsDefault(json'[t])
          /\ GetReturns(t) =>
                 LET read     == io'[t][1]
                     returned == heap'.val[Local(t)]
                 IN  /\ read.source = "cache" =>
                            /\ returned = stamped(redis, now)
                            /\ MapEntry \notin heap'.same[Local(t)]
                     /\ read.source = "table" =>
                            /\ returned = stamped(sessions, now)
                            /\ MapEntry \in heap'.same[Local(t)]
                     /\ read.source # "new" =>
                            /\ Len(io'[t]) = 1
                            /\ redis' = redis
                     /\ read.source = "new" =>
                            /\ io'[t][2].ev = "updateSession"
                            /\ io'[t][3].ev = "saveSession"
                            /\ IsDefault(returned)
                            /\ MapEntry \in heap'.same[Local(t)]
                            /\ io'[t][2].ok =>
                                   /\ redis' = json[t]
                                   /\ stamped(redis', 0) = stamped(returned, 0)
    ]_vars

\* C17 witness: on a total miss the new session was written to the cache and
\* put in the Map, and getSession has returned it
C17_Witness ==
    \E t \in GotSession :
        /\ readOf(t).outcome = "miss"
        /\ readOf(t).source = "new"
        /\ lastOf(t, "updateSession").ok
        /\ redis # NoSession /\ IsDefault(redis)
        /\ MapEntry \in heap.same[Local(t)]
        /\ IsDefault(sessions)

\* Task t takes a step of a getContextForAI call
ContextStep(t) ==
    /\ callAt(pc[t]) = "getContextForAI"
    /\ phase'[t] # phase[t]

\* C18 as stated: no step of a getContextForAI call changes the cache, the
\* Map or the durable tables
C18_ReadOnly ==
    [][ \A t \in Tasks :
          ContextStep(t) =>
              /\ redis' = redis
              /\ sessionsNext = sessions
              /\ UNCHANGED tables ]_vars

\* C18 (as the code has it): getContextForAI never writes to the durable
\* tables.  For an identifier with a session in the cache it changes nothing
\* stored; for one with a session only in the Map it changes lastActivity of
\* the Map's session and nothing else; for one with no session it creates the
\* default session, hands it to the cache and puts it in the Map.
C18_WritesOnlyTheSession ==
    [][ \A t \in Tasks :
          ContextStep(t) =>
              /\ UNCHANGED tables
              /\ phase[t] = "get" =>
                     /\ redis' = redis
                     /\ io'[t][1].source = "cache" => sessionsNext = sessions
                     /\ io'[t][1].source = "table" =>
                            sessionsNext =
                                [ sessions EXCEPT !.lastActivity = now ]
                     /\ io'[t][1].source = "new" =>
                            sessions = NoSession /\ sessionsNext = NoSession
              /\ phase[t] = "new_write" =>
                     /\ sessionsNext = sessions
                     /\ redis' = redis \/ (redis' = json[t] /\ IsDefault(redis'))
              /\ phase[t] = "new_set" =>
                     /\ redis' = redis
                     /\ sessions = NoSession
                     /\ IsDefault(sessionsNext)
              /\ phase[t] = "reads" =>
                     /\ redis' = redis
                     /\ sessionsNext = sessions ]_vars

\* C18 witness: getContextForAI has returned for an identifier whose session
\* was only in the Map, with one message counted, and the Map's session now
\* carries the time of the call
C18_Witness ==
    \E t \in Tasks :
        /\ result[t] = [ returned |-> "getContextForAI" ]
        /\ readOf(t).source = "table"
        /\ redis = NoSession
        /\ sessions.messageCount = 1
        /\ sessions.lastActivity = MaxTime
        /\ sessions.conversationContext[1].timestamp < MaxTime

\* The minimal stub of getContextForAI's catch block
ContextStub == [ isFirstTime |-> TRUE ]

\* Task t's getContextForAI has returned context[t], and these are the reads
\* it made
ContextReturned == { t \in Tasks : context[t] # NoContext /\ Len(io[t]) >= 3 }

\* One of the reads of task t's getContextForAI failed
SomeReadFailed(t) ==
    \/ readOf(t).outcome = "error"
    \/ ~lastOf(t, "getConversationHistory").ok
    \/ ~lastOf(t, "getUserProfile").ok

\* C19 as stated: when the session read, the history query or the profile
\* query fails, getContextForAI returns the stub { isFirstTime: true }
C19_StubOnFailedRead ==
    \A t \in ContextReturned :
        SomeReadFailed(t) => context[t] = ContextStub

\* C19 (as the code has it): getContextForAI never throws and never returns
\* the stub.  Whichever of its reads fail, it returns the full shape built
\* from the session getSession returned: a failed cache read only decides
\* which session that is, the history is not used, and a failed profile
\* query gives userProfile null, as a missing row does.
C19_FullShapeOnFailedRead ==
    [][ \A t \in Tasks :
          (phase[t] = "reads" /\ phase'[t] # "reads") =>
              LET profile == io'[t][Len(io'[t])]
                  history == io'[t][Len(io'[t]) - 1]
              IN  /\ history.ev = "getConversationHistory"
                  /\ profile.ev = "getUserProfile"
                  /\ pc'[t] = next(pc[t])
                  /\ context'[t] # ContextStub
                  /\ context'[t] =
                       [ isFirstTime |-> session(t).isFirstTime,
                         messageCount |-> session(t).messageCount,
                         currentTopic |-> session(t).currentTopic,
                         mood |-> session(t).mood,
                         riskLevel |-> session(t).riskLevel,
                         recentMessages |-> recentMessages(session(t)),
                         userProfile |->
                             IF profile.ok /\ users # NoRow
                             THEN [ totalMessages |-> users.total_messages,
                                    riskLevel |-> users.risk_level ]
                             ELSE NoRow ]
                  /\ flags(t)' = session(t).flags ]_vars

\* C19 witness: the cache read, the history query and the profile query all
\* failed, the user has a row and a session with one message, and the
\* context returned has that count and no profile
C19_Witness ==
    \E t \in ContextReturned :
        /\ readOf(t).outcome = "error"
        /\ ~lastOf(t, "getConversationHistory").ok
        /\ ~lastOf(t, "getUserProfile").ok
        /\ users # NoRow
        /\ context[t].userProfile = NoRow
        /\ context[t].messageCount = 1
        /\ ~context[t].isFirstTime

\* The flags a session can carry
FlagSets ==
    [ needsCheckIn : BOOLEAN, inCrisis : BOOLEAN, hasSeenResources : BOOLEAN ]

\* The flag assignments of updateContext alone, on the object the call
\* holds: inCrisis is set by a high or critical assessment, hasSeenResources
\* by non-empty resources, and neither is ever reset
FlagsOnlySet ==
    \A f \in FlagSets : \A m \in LevelMessages :
        LET before == [ createNewSession(0) EXCEPT !.flags = f ]
            after  == updateContextBody(before, m, generatedText,
                                        assessmentOf[m], 0).flags
        IN  /\ after.inCrisis =
                (f.inCrisis \/ assessmentOf[m].level \in {"high", "critical"})
            /\ after.hasSeenResources =
                (f.hasSeenResources \/ Len(assessmentOf[m].resources) > 0)
            /\ after.needsCheckIn = f.needsCheckIn

\* C20 as stated: once an updateContext call has seen a high or critical
\* assessment the session's flags.inCrisis is true, once one has seen
\* non-empty resources flags.hasSeenResources is true, and later
\* updateContext calls leave them so: with only updateContext calls made,
\* none overlapping and none of them clearCrisisFlag, the stored session has
\* the flags set
C20_FlagsStaySet ==
    (\A t \in Tasks : pc[t] = "idle" \/ t \in ContextCalls) =>
        /\ FlagsOnlySet
        /\ \A t \in ContextCalls :
              /\ levelOf(t) \in {"high", "critical"} =>
                     sessions # NoSession /\ sessions.flags.inCrisis
              /\ Len(riskAssessment[t].resources) > 0 =>
                     sessions # NoSession /\ sessions.flags.hasSeenResources

\* Every cache read and cache write of the calls made so far succeeded
CacheWorked ==
    \A t \in Tasks : \A i \in DOMAIN io[t] :
        IF io[t][i].ev = "memory.getSession"
        THEN io[t][i].outcome # "error"
        ELSE io[t][i].ok

\* The user messages of the exchanges the session s holds
exchangesOf(s) ==
    { s.conversationContext[i].user : i \in DOMAIN s.conversationContext }

\* C21: updateContext calls for one identifier that may overlap, on a user
\* with no session yet and a cache that never fails.  When all have
\* returned, the cache entry and the Map entry each hold a messageCount
\* between 1 and the number of calls and as many exchanges, all of them
\* exchanges of these calls: updates can be lost (count 1 after two calls,
\* see the witness), the last save always survives, and nothing else is
\* stored.
C21_StoredCountsWhatSurvived ==
    (ContextCalls = Tasks /\ CacheWorked) =>
        \A s \in { redis, sessions } :
            /\ s # NoSession
            /\ s.messageCount \in 1..Cardinality(Tasks)
            /\ Len(s.conversationContext) = s.messageCount
            /\ exchangesOf(s) \subseteq { messageText[t] : t \in Tasks }
            /\ s.messageCount = Cardinality(Tasks) =>
                   exchangesOf(s) = { messageText[t] : t \in Tasks }

\* C21 witness: both calls have returned, no cache operation failed, the
\* two messages differ, and the session the next getSession reads has
\* messageCount 1 and one exchange: the other call's exchange is missing
C21_Witness ==
    /\ ContextCalls = Tasks
    /\ CacheWorked
    /\ messageText[1] # messageText[2]
    /\ redis.messageCount = 1
    /\ Len(redis.conversationContext) = 1
    /\ sessions.messageCount = 1
    /\ Cardinality(exchangesOf(redis)) = 1

\* The handlers whose generation failed in the normal branch and that hold
\* the substituted reply
FallbackChosen ==
    { t \in Tasks : pc[t] = "storeIncoming" /\ ~aiResponse[t].success }

\* The choice inside getFallbackResponse: at the step where generation fails
\* in the normal branch, the reply is the text for context.flags.inCrisis as
\* it is at that moment
FallbackByContextFlags ==
    [][ \A t \in Tasks :
          ( pc[t] = "generateResponse" /\ pc'[t] = "storeIncoming"
            /\ ~aiResponse'[t].success ) =>
              aiResponse'[t].message = getFallbackResponse(flags(t).inCrisis)
      ]_vars

\* C22 as stated: when generation fails in the normal branch, the reply is
\* the crisis-specific fallback exactly when flags.inCrisis was true in the
\* context at the time getContextForAI returned it, and the generic fallback
\* otherwise
C22_FallbackBySnapshotAtStart ==
    \A t \in FallbackChosen :
        aiResponse[t].message =
            getFallbackResponse(lastOf(t, "getContextForAI").inCrisis)

\* The bodies validateMessage rejects or the webhook cannot read: missing,
\* non-string, empty, white space only, longer than 10000 characters
InvalidBodies ==
    { b \in DOMAIN Bodies :
        \/ Bodies[b].type # "string"
        \/ \A i \in DOMAIN Bodies[b].text : Bodies[b].text[i] \in WhiteSpace
        \/ Len(Bodies[b].text) > MaxLength }

\* Task t's webhook request is handled in this step
Requested(t) == pc[t] = "idle" /\ pc'[t] # "idle"

\* The request produced no effect other than the HTTP response: no SMS, no
\* hand-over to handleIncomingMessage, no assessment, nothing stored, the
\* session unchanged
SilentNoOp(t) ==
    /\ log'[t] = log[t]
    /\ pc'[t] = "done"
    /\ riskAssessment' = riskAssessment
    /\ UNCHANGED << stores, tables >>

Tables ==
    UNION { [ S -> [ lastActivity : 0..MaxTime ] ] :
              S \in SUBSET (1..MaxEntries) }

\* cleanupSessions on every such Map at every time: the entries deleted are
\* exactly those last active more than one hour before, and the entries
\* kept are unchanged
DeletesExactlyTheOld ==
    \A table \in Tables : \A at \in 0..MaxTime :
        LET kept == cleanupSessions(table, at)
        IN  /\ DOMAIN kept =
                 { p \in DOMAIN table : at - table[p].lastActivity <= 1 }
            /\ \A p \in DOMAIN kept : kept[p] = table[p]

\* A cleanupSessions call is made in this step
CleanupStep == Len(cleanups') = Len(cleanups) + 1

\* C24: cleanupSessions deletes from the Map exactly the entries whose
\* lastActivity is more than one hour before the time of the call (an entry
\* exactly one hour old is kept), keeps every other entry as it is, and
\* changes neither the cache nor the durable tables; a call in progress
\* keeps the session object it holds
C24_DeletesExactlyTheOld ==
    [][ CleanupStep =>
          /\ DeletesExactlyTheOld
          /\ sessionsNext =
                 IF sessions # NoSession /\ now - sessions.lastActivity > 1
                 THEN NoSession ELSE sessions
          /\ cleanups'[Len(cleanups')] =
                 [ at |-> now,
                   removed |-> IF sessions # NoSession /\ sessionsNext = NoSession
                               THEN 1 ELSE 0 ]
          /\ redis' = redis
          /\ UNCHANGED tables
          /\ \A t \in Tasks : session(t)' = session(t)
      ]_vars

\* C24 witness: a call one hour after the session was last active deleted
\* nothing, a call two hours after deleted it from the Map, and the cache
\* still holds the session
C24_Witness ==
    /\ cleanups = << [ at |-> 1, removed |-> 0 ], [ at |-> 2, removed |-> 1 ] >>
    /\ sessions = NoSession
    /\ redis # NoSession
    /\ redis.lastActivity = 0

\* cleanupSessions on its own, twice at the same time, on every Map: the
\* second call deletes nothing
SecondCallDeletesNothing ==
    \A table \in Tables : \A at \in 0..MaxTime :
        LET once == cleanupSessions(table, at)
        IN  cleanupSessions(once, at) = once

\* C25: cleanupSessions is idempotent: whatever the Map holds, a call made
\* at the same clock reading right after a call deletes no further entry
\* (the Map a call leaves is one a call at that time leaves as it is)
C25_SecondCallDeletesNothing ==
    [][ CleanupStep =>
          /\ SecondCallDeletesNothing
          /\ cleanupSessions(sessionsTable', now') = sessionsTable'
      ]_vars

\* C25 witness: two calls at the same clock reading, the first deleted the
\* session, the second deleted nothing
C25_Witness ==
    /\ cleanups = << [ at |-> 2, removed |-> 1 ], [ at |-> 2, removed |-> 0 ] >>
    /\ sessions = NoSession

\* How many keywords of the category the phrases S hold together
RECURSIVE matchCount(_, _)
matchCount(S, category) ==
    IF S = {} THEN 0
    ELSE LET i == CHOOSE j \in S : TRUE
         IN  (IF Phrases[i].category = category THEN Phrases[i].keywords
              ELSE 0)
             + matchCount(S \ {i}, category)

\* In how many of the scored categories the phrases S hold a keyword
scoredCategories(S) ==
    Cardinality({ category \in { "suicide", "selfHarm", "abuse", "substance" } :
                    matchCount(S, category) > 0 })

\* C26: for every assessment with level critical, whatever its categories
\* and resources, the text generateCrisisResponse returns contains the
\* hotline number 988
C26_CriticalResponseHas988 ==
    \A t \in Tasks :
        /\ pc[t] = "done"
        /\ "response" \in DOMAIN result[t]
        /\ riskAssessment[t].level = "critical"
        => containsNumber(result[t].response, "988")

\* C27: every message that matches keywords in two or more of the scored
\* categories (suicide, selfHarm, abuse, substance), with or without an
\* immediate-risk keyword, is assessed as high or critical
C27_TwoCategoriesAreHigh ==
    \A t \in Tasks :
        t \in Assessed /\ scoredCategories(messageText[t]) >= 2
            => riskAssessment[t].level \in { "high", "critical" }

\* C28: every message that matches keywords in at least two scored
\* categories and also matches at least one immediate-risk keyword is
\* assessed as high or critical
C28_TwoCategoriesAndImmediateAreHigh ==
    \A t \in Assessed :
        /\ scoredCategories(messageText[t]) >= 2
        /\ matchCount(messageText[t], "immediateRisk") >= 1
        => riskAssessment[t].level \in { "high", "critical" }

\* C28 witness: a message with one selfHarm, one substance and one
\* immediate-risk keyword and nothing else was assessed as high
C28_Witness ==
    \E t \in Assessed :
        /\ matchCount(messageText[t], "suicide") = 0
        /\ matchCount(messageText[t], "selfHarm") = 1
        /\ matchCount(messageText[t], "abuse") = 0
        /\ matchCount(messageText[t], "substance") = 1
        /\ matchCount(messageText[t], "immediateRisk") = 1
        /\ riskAssessment[t].level = "high"

\* C29: every message that contains at least one suicide keyword, in any
\* case of letters, is assessed with categories that include "suicide" and
\* with a level of at least medium (so never none)
C29_SuicideKeywordIsAtLeastMedium ==
    \A t \in Assessed :
        matchCount(messageText[t], "suicide") >= 1
        => /\ hasCategory(riskAssessment[t].categories, "suicide")
           /\ riskAssessment[t].level \in { "medium", "high", "critical" }

\* C29 witness: the message 'SUICIDAL', one suicide keyword in upper case and
\* nothing else, was assessed as medium with the category suicide
C29_Witness ==
    \E t \in Assessed :
        /\ messageText[t] = { 3 }
        /\ Phrases[3].category = "suicide"
        /\ toLowerCase(Phrases[3].text) # Phrases[3].text
        /\ riskAssessment[t].categories = << "suicide" >>
        /\ riskAssessment[t].level = "medium"

\* The score of a message with the given numbers of keyword matches:
\* 10, 7, 8 and 5 per scored keyword, and 15 per immediate-risk keyword
\* only when a scored keyword matched
scoreOfCounts(s, h, a, u, i) ==
    LET sum == 10 * s + 7 * h + 8 * a + 5 * u
    IN  IF sum # 0 THEN sum + 15 * i ELSE 0

\* The level of a score by the thresholds 0, 10, 20 and 40
levelOfScore(score) ==
    CASE score = 0 -> "none"
      [] score > 0 /\ score < 10 -> "low"
      [] score >= 10 /\ score < 20 -> "medium"
      [] score >= 20 /\ score < 40 -> "high"
      [] score >= 40 -> "critical"

\* C30: for the match counts (s, h, a, u, i) of a message, assessRisk
\* returns the level of the score 10s + 7h + 8a + 5u, plus 15i only when
\* that sum is not zero, by the thresholds none (0), low (< 10), medium
\* (< 20), high (< 40), critical (otherwise); requiresImmediateIntervention
\* is true exactly for critical; the categories are the scored categories
\* with a match, and the keywords are the scored matches; so the empty
\* string and a message with only immediate-risk keywords get level none
\* and no categories
C30_LevelByWeightedCounts ==
    \A t \in Assessed :
        LET S == messageText[t]
            s == matchCount(S, "suicide")
            h == matchCount(S, "selfHarm")
            a == matchCount(S, "abuse")
            u == matchCount(S, "substance")
            i == matchCount(S, "immediateRisk")
            assessment == riskAssessment[t]
        IN  /\ assessment.level = levelOfScore(scoreOfCounts(s, h, a, u, i))
            /\ assessment.requiresImmediateIntervention
                   = (assessment.level = "critical")
            /\ Len(assessment.keywords) = s + h + a + u
            /\ \A category \in { "suicide", "selfHarm", "abuse", "substance" } :
                   hasCategory(assessment.categories, category)
                       <=> matchCount(S, category) > 0
            /\ s + h + a + u = 0
                   => /\ assessment.level = "none"
                      /\ assessment.categories = << >>

\* C30 witness: a message of three immediate-risk keywords and no scored
\* keyword was assessed as none with no categories
C30_Witness ==
    \E t \in Assessed :
        /\ matchCount(messageText[t], "immediateRisk") = 3
        /\ scoredCategories(messageText[t]) = 0
        /\ riskAssessment[t].level = "none"
        /\ riskAssessment[t].categories = << >>
        /\ ~riskAssessment[t].requiresImmediateIntervention

\* The tasks that asked requiresHumanEscalation and requiresReview about an
\* assessment they wrote out
AskedEscalation ==
    { t \in Tasks : pc[t] = "done"
                    /\ "requiresReview" \in DOMAIN result[t] }

\* C31: requiresHumanEscalation is true exactly for the levels high and
\* critical and requiresReview is true exactly for every level other than
\* none, for each of the five risk levels
C31_EscalationAndReviewByLevel ==
    \A t \in AskedEscalation :
        LET level == result[t].assessment.level
        IN  /\ level \in { "none", "low", "medium", "high", "critical" }
            /\ result[t].requiresHumanEscalation
                   = (level = "high" \/ level = "critical")
            /\ result[t].requiresReview
                   = (level = "low" \/ level = "medium" \/ level = "high"
                      \/ level = "critical")

\* C31 witness: for the level low, review is required and escalation is not
C31_Witness ==
    \E t \in AskedEscalation :
        /\ result[t].assessment.level = "low"
        /\ result[t].requiresReview
        /\ ~result[t].requiresHumanEscalation

\* The tasks that assessed a message and its upper-case form
ComparedCases ==
    { t \in Tasks : pc[t] = "done" /\ "assessment1" \in DOMAIN result[t] }

\* The phrases written in ASCII only
AsciiPhrases ==
    { i \in 1..Len(Phrases) :
        \A k \in 1..Len(Phrases[i].text) :
            Phrases[i].text[k] \notin { "U+0131", "U+00DF" } }

\* C32: assessRisk is case-insensitive: for every message s, assessRisk(s)
\* and assessRisk(uppercase(s)) return the same level and the same
\* categories
C32_SameForUpperCase ==
    \A t \in ComparedCases :
        /\ result[t].assessment1.level = riskAssessment[t].level
        /\ result[t].assessment1.categories = riskAssessment[t].categories

\* The same for the messages written in ASCII only
SameForUpperCaseAscii ==
    \A t \in ComparedCases :
        messageText[t] \subseteq AsciiPhrases
        => /\ result[t].assessment1.level = riskAssessment[t].level
           /\ result[t].assessment1.categories = riskAssessment[t].categories

\* A message written with the dotless i is assessed as none and its
\* upper-case form as medium
DotlessIDiffers ==
    \E t \in ComparedCases :
        /\ messageText[t] = { 14 }
        /\ riskAssessment[t].level = "none"
        /\ riskAssessment[t].categories = << >>
        /\ result[t].assessment1.level = "medium"
        /\ result[t].assessment1.categories = << "suicide" >>

\* A message written with the sharp s is assessed as none and its
\* upper-case form as low
SharpSDiffers ==
    \E t \in ComparedCases :
        /\ messageText[t] = { 15 }
        /\ riskAssessment[t].level = "none"
        /\ result[t].assessment1.level = "low"
        /\ result[t].assessment1.categories = << "abuse" >>

\* Two sessions with the same content, lastActivity aside
sameContent(a, b) ==
    [ a EXCEPT !.lastActivity = 0 ] = [ b EXCEPT !.lastActivity = 0 ]

\* Every cache write of the calls made so far succeeded
CacheWritesWorked ==
    \A t \in Tasks : \A i \in DOMAIN io[t] :
        io[t][i].ev = "updateSession" => io[t][i].ok

\* C33: read-your-writes across tiers: after saveSession(id, s) has
\* returned, the next getSession(id) with no save in between returns the
\* content of s, lastActivity aside, also when the cache write of s failed
\* while an older cache entry is still readable.  Calls do not overlap, and
\* this.sessions.set(id, s) ends every saveSession, so before a getSession
\* the Map entry is the s of the last save that returned
C33_ReadYourWrites ==
    [][ \A t \in Tasks :
          phase[t] = "get" /\ GetReturns(t) /\ sessions # NoSession
              => sameContent(session(t)', sessions)
      ]_vars

\* The same, as long as no cache write has failed
ReadYourWritesWhenWritten ==
    [][ \A t \in Tasks :
          /\ phase[t] = "get" /\ GetReturns(t) /\ sessions # NoSession
          /\ CacheWritesWorked
          => sameContent(session(t)', sessions)
      ]_vars

\* Task t's handler called storeMessage for the given direction
StoreCalled(t, direction) ==
    \E i \in 1..Len(log[t]) :
        log[t][i].ev = "storeMessage" /\ log[t][i].direction = direction

\* conversations has a row with the given direction and text
HasRow(direction, text) ==
    \E i \in 1..Len(conversations) :
        /\ conversations[i].direction = direction
        /\ conversations[i].message = text

\* C34: after the first message of a never-seen user is handled with the
\* durable store reachable, the durable store holds a row of users for the
\* user and rows of conversations for the inbound and the outbound text
C34_FirstMessageIsStored ==
    \A t \in Tasks :
        /\ pc[t] = "done"
        /\ StoreCalled(t, "incoming")
        /\ StoreCalled(t, "outgoing")
        => /\ users # NoRow
           /\ HasRow("incoming", Inbound[messageText[t]].text)
           /\ \E i \in 1..Len(log[t]) :
                  /\ log[t][i].ev = "storeMessage"
                  /\ log[t][i].direction = "outgoing"
                  /\ HasRow("outgoing", log[t][i].body)

\* For a never-seen user nothing is ever stored: the INSERT into
\* conversations comes first and breaks the foreign key, so the upsert of
\* users is never reached, and the INSERT into crisis_events breaks it too
NeverSeenStaysUnknown ==
    /\ users = NoRow
    /\ conversations = << >>
    /\ crisis_events = << >>
    /\ \A t \in Tasks : \A i \in 1..Len(log[t]) :
           log[t][i].ev \in { "storeMessage", "storeCrisisEvent" }
               => ~log[t][i].ok

\* The mutators that assign one field of the session (two for
\* markForCheckIn) between getSession and saveSession
PartialMutators ==
    { "markForCheckIn", "clearCrisisFlag", "updatePreferences", "setTopic",
      "updateMood" }

\* The session without the fields the mutator `call` assigns and without
\* lastActivity: what the mutator has to leave as it was
frameOf(sess, call) ==
    LET rest == [ sess EXCEPT !.lastActivity = 0 ]
    IN  CASE call = "markForCheckIn"
               -> [ rest EXCEPT !.flags.needsCheckIn = FALSE,
                                !.checkInReason = "undefined" ]
          [] call = "clearCrisisFlag"
               -> [ rest EXCEPT !.flags.inCrisis = FALSE ]
          [] call = "updatePreferences"
               -> [ rest EXCEPT !.preferences = {} ]
          [] call = "setTopic"
               -> [ rest EXCEPT !.currentTopic = "null" ]
          [] call = "updateMood"
               -> [ rest EXCEPT !.mood = "null" ]

\* C35: each partial mutator changes only its own field of the session:
\* while a markForCheckIn, clearCrisisFlag, updatePreferences, setTopic or
\* updateMood call for a stored session runs (calls not overlapping), every
\* step leaves riskLevel, messageCount, isFirstTime, conversationContext,
\* the other flags and every other field of the stored session as they were,
\* lastActivity aside; in particular clearCrisisFlag does not lower riskLevel
C35_MutatorsChangeOwnField ==
    [][ \A t \in Tasks :
          /\ callAt(pc[t]) \in PartialMutators
          /\ sessions # NoSession
          /\ sessions' # NoSession
          => frameOf(sessions', callAt(pc[t])) = frameOf(sessions, callAt(pc[t]))
      ]_vars

\* The assignments of the partial mutators alone, on the object the call
\* holds: the session the call goes on to save differs from the one its
\* getSession returned in the mutator's own field only
MutatorAssignsOwnField ==
    [][ \A t \in Tasks :
          /\ callAt(pc[t]) \in PartialMutators
          /\ phase[t] = "mutate"
          /\ phase'[t] = "save_write"
          => /\ frameOf(session(t)', callAt(pc[t]))
                   = frameOf(session(t), callAt(pc[t]))
             /\ json'[t] = session(t)'
      ]_vars

\* C35 as long as no cache write has failed
MutatorsChangeOwnFieldWhenWritten ==
    [][ \A t \in Tasks :
          /\ callAt(pc[t]) \in PartialMutators
          /\ sessions # NoSession
          /\ sessions' # NoSession
          /\ CacheWritesWorked
          => frameOf(sessions', callAt(pc[t])) = frameOf(sessions, callAt(pc[t]))
      ]_vars

\* The stored timestamps younger than one hour at time `at`
youngerThanAnHour(requests, at) ==
    { i \in DOMAIN requests : at - requests[i] < hourWindow }

\* The request of task t was answered with the limit notice
Limited(t) ==
    /\ Len(log'[t]) = Len(log[t]) + 1
    /\ log'[t][Len(log'[t])].body = limitMessage

\* C36: the per-user rate limiter admits at most hourLimit messages of the
\* phone number in one hour: after every webhook call, and as time passes,
\* the stored timestamp list holds at most hourLimit entries younger than
\* one hour, and a call answered with the limit notice adds no timestamp
C36_AtMostLimitPerHour ==
    [][ /\ Cardinality(youngerThanAnHour(userRateLimits', now')) <= hourLimit
        /\ \A t \in Tasks :
              Requested(t) /\ Limited(t) =>
                  /\ Len(userRateLimits') <= Len(userRateLimits)
                  /\ \A i \in DOMAIN userRateLimits' :
                        \E j \in DOMAIN userRateLimits :
                            userRateLimits'[i] = userRateLimits[j]
      ]_vars

\* C36 witness: a request within the limit was counted, the next one in the
\* same hour was answered with the limit notice, and the list holds hourLimit
\* entries younger than one hour
C36_Witness ==
    /\ pc[1] = "handleIncomingMessage"
    /\ pc[2] = "done"
    /\ log[2] # << >>
    /\ log[2][1].body = limitMessage
    /\ Cardinality(youngerThanAnHour(userRateLimits, now)) = hourLimit
    /\ Len(userRateLimits) = hourLimit

\* The request of task t reached checkUserRateLimit (it was neither refused
\* for its signature nor did reading message.length throw) and the limiter
\* returned false
RateLimited(t) ==
    /\ Requested(t)
    /\ result'[t].status = 200
    /\ Cardinality(youngerThanAnHour(userRateLimits, now)) >= hourLimit

\* C37: a message rejected by the per-user rate limiter is never handed to
\* handleIncomingMessage, whatever its text: the request ends in the webhook,
\* no assessment is made, no CrisisEvent and no message is stored, the
\* session is left as it was in the cache and in the Map, and the one SMS
\* sent for it is the limit notice, which names 988
C37_LimitedIsNotHandled ==
    [][ \A t \in Tasks :
          RateLimited(t) =>
              /\ pc'[t] = "done"
              /\ riskAssessment' = riskAssessment
              /\ UNCHANGED << crisis_events, conversations, users >>
              /\ UNCHANGED << heap, redis, json >>
              /\ Len(log'[t]) = Len(log[t]) + 1
              /\ SubSeq(log'[t], 1, Len(log[t])) = log[t]
              /\ LET sent == log'[t][Len(log'[t])]
                 IN  /\ sent.ev = "sendSMS"
                     /\ sent.body = limitMessage
                     /\ containsNumber(sent.body, "988")
      ]_vars

\* C37 witness: a message assessed critical arrived within the hour of a
\* counted one and was answered with the limit notice alone
C37_Witness ==
    \E t \in Tasks :
        /\ pc[t] = "done"
        /\ messageText[t] \in Strings
        /\ assessmentOf[messageText[t]].level = "critical"
        /\ result[t].status = 200
        /\ Len(log[t]) = 1
        /\ log[t][1].body = limitMessage
        /\ riskAssessment[t] = NoAssessment
        /\ crisis_events = << >>

\* checkCrisis reported a crisis for the message of task t
CrisisReported(t) ==
    "isCrisis" \in DOMAIN result[t] /\ result[t].isCrisis

\* C38: in the CalmText handler, when checkCrisis reports a crisis for a
\* message (by a keyword, by the analysis or by the fail-safe), the first
\* call is sendSMS of the fixed CRISIS_MESSAGE, which names 988 and 741741;
\* the next is saveContext of the exchange of the message and CRISIS_MESSAGE
\* flagged crisis = true, after which the handler returns (through its catch
\* and the trouble notice when saveContext throws); getContext and
\* generateAIResponse are never called for the message
C38_CrisisSendsFixedMessage ==
    \A t \in Tasks :
        CrisisReported(t) =>
            /\ pc[t] \in { "crisis_sendSMS", "crisis_saveContext",
                           "catch_sendSMS", "done" }
            /\ \A i \in DOMAIN log[t] :
                   log[t][i].ev \notin { "generateAIResponse", "getContext" }
            /\ containsNumber(CRISIS_MESSAGE, "988")
            /\ containsNumber(CRISIS_MESSAGE, "741741")
            /\ pc[t] = "crisis_sendSMS" => log[t] = << >>
            /\ pc[t] # "crisis_sendSMS" =>
                   /\ log[t][1].ev = "sendSMS"
                   /\ log[t][1].body = CRISIS_MESSAGE
            /\ pc[t] = "crisis_saveContext" => Len(log[t]) = 1
            /\ pc[t] \in { "catch_sendSMS", "done" } =>
                   /\ log[t][2].ev = "saveContext"
                   /\ log[t][2].crisis
                   /\ log[t][2].user = messageText[t]
                   /\ log[t][2].body = CRISIS_MESSAGE
            /\ pc[t] = "catch_sendSMS" => Len(log[t]) = 2 /\ ~log[t][2].ok
            /\ pc[t] = "done" =>
                   \/ Len(log[t]) = 2 /\ log[t][2].ok
                   \/ /\ Len(log[t]) = 3 /\ ~log[t][2].ok
                      /\ log[t][3].ev = "sendSMS"
                      /\ log[t][3].body = troubleMessage

\* C38 witness: the analysis reported a crisis for a message without a
\* keyword; CRISIS_MESSAGE was sent, the exchange was saved flagged crisis,
\* and the handler has returned
C38_Witness ==
    /\ pc[1] = "done"
    /\ CrisisReported(1)
    /\ result[1].reason = << "ai_analysis" >>
    /\ Len(log[1]) = 2
    /\ log[1][1].body = CRISIS_MESSAGE
    /\ log[1][2].ev = "saveContext" /\ log[1][2].crisis /\ log[1][2].ok

====
